---- MODULE Spec2Model ----
(***************************************************************************)
(* Model of the jsonnet custom importers: the MultiImporter (dispatcher,   *)
(* import graph, in-file configuration) of importer.go and the             *)
(* GlobImporter (pattern resolution, hierarchical sort, exclusion).        *)
(*                                                                         *)
(* Strings.  A Go string that is a path is modelled by the sequence of its *)
(* "/"-separated segments ("t/c.j" is <<"t", "c.j">>, "" is <<>>); where   *)
(* the code works on the characters of a string (sort order, prefix tests, *)
(* wildcard matching) the string is expanded to its characters by Chars.   *)
(***************************************************************************)
EXTENDS Naturals, Sequences, FiniteSets, TLC

VARIABLES
    importers,          \* MultiImporter.importers: registry, in order
    logLevel,           \* MultiImporter.logLevel
    ignoreImportCycles, \* MultiImporter.ignoreImportCycles
    importGraph,        \* MultiImporter.importGraph (shared with the resolvers)
    importCounter,      \* MultiImporter.importCounter
    importGraphFile,    \* MultiImporter.importGraphFile
    enableImportGraph,  \* MultiImporter.enableImportGraph
    dotFiles,           \* MultiImporter.fs: the graph dumps written, by file name
    excludePattern,     \* GlobImporter.excludePattern
    prefixa,            \* GlobImporter.prefixa: prefix -> alias ("" = none)
    aliases,            \* GlobImporter.aliases: alias -> prefix
    globCounter,        \* GlobImporter.importCounter (set by setImportGraph)
    last,               \* what the last Dispatcher call was given and returned
    res,                \* one call of GlobImporter.resolveFilesFrom
    srt,                \* one call of sort.Sort(hierachically(...))
    rnd,                \* one call of GlobImporter.handle
    onMissingFile       \* MultiImporter: what stands in for a file not found

vars == <<importers, logLevel, ignoreImportCycles, importGraph, importCounter,
          importGraphFile, enableImportGraph, dotFiles, excludePattern,
          prefixa, aliases, globCounter, last, res, srt, rnd,
          onMissingFile>>

---------------------------------------------------------------------------
(* Bounds of the model.                                                    *)

\* Calls of MultiImporter.Import in one session.
MaxImports == 2
\* Library search roots (JPaths) handed to one resolution.
MaxRoots == 2
\* Length of the lists handed to the sort.
MaxSortLen == 3

---------------------------------------------------------------------------
(* Characters.                                                             *)

\* The characters the model's strings use, in increasing byte order; "NUL"
\* stands for the byte 0 that hierachically.Less puts in place of "/".
Alphabet ==
    <<"NUL", "*", "+", "-", ".", "/", "0", "1", "2", ":", "[", "_",
      "a", "b", "c", "d", "e", "f", "g", "h", "i", "j", "k", "l", "m",
      "n", "o", "p", "r", "s", "t", "v", "x">>

Ord(c) == CHOOSE i \in 1..Len(Alphabet) : Alphabet[i] = c

\* The strings of the model with their characters.
CharTable ==
    {<<"", <<>>>>,
      <<".", <<".">>>>,
      <<"..", <<".", ".">>>>,
      <<":", <<":">>>>,
      <<"t", <<"t">>>>,
      <<"s", <<"s">>>>,
      <<"v", <<"v">>>>,
      <<"m", <<"m">>>>,
      <<"n", <<"n">>>>,
      <<"a", <<"a">>>>,
      <<"b", <<"b">>>>,
      <<"c", <<"c">>>>,
      <<"d", <<"d">>>>,
      <<"x", <<"x">>>>,
      <<"a0", <<"a", "0">>>>,
      <<"a1", <<"a", "1">>>>,
      <<"b02", <<"b", "0", "2">>>>,
      <<"b10", <<"b", "1", "0">>>>,
      <<"b2", <<"b", "2">>>>,
      <<"a-b", <<"a", "-", "b">>>>,
      <<"c.j", <<"c", ".", "j">>>>,
      <<"h.l", <<"h", ".", "l">>>>,
      <<"p.l", <<"p", ".", "l">>>>,
      <<"a.l", <<"a", ".", "l">>>>,
      <<"b.l", <<"b", ".", "l">>>>,
      <<"x.l", <<"x", ".", "l">>>>,
      <<"g.gv", <<"g", ".", "g", "v">>>>,
      <<"import_graph.gv", <<"i", "m", "p", "o", "r", "t", "_", "g", "r", "a", "p", "h", ".", "g", "v">>>>,
      <<"*", <<"*">>>>,
      <<"**", <<"*", "*">>>>,
      <<"*.l", <<"*", ".", "l">>>>,
      <<"*.j", <<"*", ".", "j">>>>,
      <<"*.x", <<"*", ".", "x">>>>,
      <<"*h.l", <<"*", "h", ".", "l">>>>,
      <<"*a.l", <<"*", "a", ".", "l">>>>,
      <<"glob.paths", <<"g", "l", "o", "b", ".", "p", "a", "t", "h", "s">>>>,
      <<"\"{}\"", <<"\"", "{", "}", "\"">>>>,
      <<"'[]'", <<"'", "[", "]", "'">>>>,
      <<"[", <<"[">>>>,
      <<"config", <<"c", "o", "n", "f", "i", "g">>>>,
      <<"set", <<"s", "e", "t">>>>,
      <<"http", <<"h", "t", "t", "p">>>>,
      <<"glob", <<"g", "l", "o", "b">>>>,
      <<"stem", <<"s", "t", "e", "m">>>>,
      <<"glob.path", <<"g", "l", "o", "b", ".", "p", "a", "t", "h">>>>,
      <<"glob.path+", <<"g", "l", "o", "b", ".", "p", "a", "t", "h", "+">>>>,
      <<"glob-str.path", <<"g", "l", "o", "b", "-", "s", "t", "r", ".", "p", "a", "t", "h">>>>,
      <<"glob-str.path+", <<"g", "l", "o", "b", "-", "s", "t", "r", ".", "p", "a", "t", "h", "+">>>>,
      <<"glob.file", <<"g", "l", "o", "b", ".", "f", "i", "l", "e">>>>,
      <<"glob.file+", <<"g", "l", "o", "b", ".", "f", "i", "l", "e", "+">>>>,
      <<"glob-str.file", <<"g", "l", "o", "b", "-", "s", "t", "r", ".", "f", "i", "l", "e">>>>,
      <<"glob-str.file+", <<"g", "l", "o", "b", "-", "s", "t", "r", ".", "f", "i", "l", "e", "+">>>>,
      <<"glob.dir", <<"g", "l", "o", "b", ".", "d", "i", "r">>>>,
      <<"glob.dir+", <<"g", "l", "o", "b", ".", "d", "i", "r", "+">>>>,
      <<"glob-str.dir", <<"g", "l", "o", "b", "-", "s", "t", "r", ".", "d", "i", "r">>>>,
      <<"glob-str.dir+", <<"g", "l", "o", "b", "-", "s", "t", "r", ".", "d", "i", "r", "+">>>>,
      <<"glob.stem", <<"g", "l", "o", "b", ".", "s", "t", "e", "m">>>>,
      <<"glob.stem+", <<"g", "l", "o", "b", ".", "s", "t", "e", "m", "+">>>>,
      <<"glob-str.stem", <<"g", "l", "o", "b", "-", "s", "t", "r", ".", "s", "t", "e", "m">>>>,
      <<"glob-str.stem+", <<"g", "l", "o", "b", "-", "s", "t", "r", ".", "s", "t", "e", "m", "+">>>>,
      <<"+", <<"+">>>>,
      <<"glob-str", <<"g", "l", "o", "b", "-", "s", "t", "r">>>>,
      <<"glob+", <<"g", "l", "o", "b", "+">>>>,
      <<"glob-str+", <<"g", "l", "o", "b", "-", "s", "t", "r", "+">>>> }

CharsOf == [s \in {e[1] : e \in CharTable} |->
               (CHOOSE e \in CharTable : e[1] = s)[2]]

\* The characters of a string of the model.
Chars(s) == CharsOf[s]

\* strings.HasPrefix and strings.HasSuffix on the characters of two strings.
PrefixOf(cp, cs) == Len(cp) <= Len(cs) /\ SubSeq(cs, 1, Len(cp)) = cp

SuffixOf(cp, cs) ==
    Len(cp) <= Len(cs) /\ SubSeq(cs, Len(cs) - Len(cp) + 1, Len(cs)) = cp

HasPrefix(s, prefix) == PrefixOf(Chars(prefix), Chars(s))

HasSuffix(s, suffix) == SuffixOf(Chars(suffix), Chars(s))

---------------------------------------------------------------------------
(* Paths (path/filepath).                                                  *)

RECURSIVE CleanSegs(_, _)
CleanSegs(acc, p) ==
    IF p = <<>> THEN acc
    ELSE LET seg == Head(p)
         IN  CASE seg = "." \/ seg = "" -> CleanSegs(acc, Tail(p))
               [] seg = ".." ->
                    IF acc # <<>> /\ acc[Len(acc)] # ".."
                    THEN CleanSegs(SubSeq(acc, 1, Len(acc) - 1), Tail(p))
                    ELSE CleanSegs(Append(acc, ".."), Tail(p))
               [] OTHER -> CleanSegs(Append(acc, seg), Tail(p))

\* filepath.Clean of a relative path; the empty result is ".".
Clean(p) ==
    LET r == CleanSegs(<<>>, p)
    IN  IF r = <<>> THEN <<".">> ELSE r

\* The directory part of filepath.Split (everything before the last segment).
Dir(p) == IF p = <<>> THEN <<>> ELSE SubSeq(p, 1, Len(p) - 1)

\* The file part of filepath.Split.
Base(p) == IF p = <<>> THEN "" ELSE p[Len(p)]

\* filepath.Join of two elements: empty elements are dropped, the rest is
\* cleaned; all elements empty gives "".
Join(dir, p) == IF dir = <<>> /\ p = <<>> THEN <<>> ELSE Clean(dir \o p)

\* The characters of a path string: its segments joined by "/".
RECURSIVE Str(_)
Str(p) ==
    IF p = <<>> THEN <<>>
    ELSE IF Len(p) = 1 THEN Chars(p[1])
    ELSE Chars(p[1]) \o <<"/">> \o Str(Tail(p))

---------------------------------------------------------------------------
(* hierachically: the sort order of resolved files.                        *)

\* strings.ReplaceAll(s, old, new) for single characters.
ReplaceAll(cs, old, new) ==
    [i \in 1..Len(cs) |-> IF cs[i] = old THEN new ELSE cs[i]]

\* Go's < on strings: bytewise, a proper prefix first.
RECURSIVE StrLess(_, _)
StrLess(a, b) ==
    IF b = <<>> THEN FALSE
    ELSE IF a = <<>> THEN TRUE
    ELSE IF Head(a) = Head(b) THEN StrLess(Tail(a), Tail(b))
    ELSE Ord(Head(a)) < Ord(Head(b))

\* A slip the sort could make: compare the path strings as they are.
LessPlain(p, q) == StrLess(Str(p), Str(q))

\* hierachically.Less: "/" is replaced by the byte 0 before comparing.
Less(p, q) ==
    StrLess(ReplaceAll(Str(p), "/", "NUL"), ReplaceAll(Str(q), "/", "NUL"))

RECURSIVE InsertSorted(_, _)
InsertSorted(sorted, p) ==
    IF sorted = <<>> THEN <<p>>
    ELSE IF Less(p, Head(sorted)) THEN <<p>> \o sorted
    ELSE <<Head(sorted)>> \o InsertSorted(Tail(sorted), p)

\* A slip: the sort leaving the list as it is.
KeepOrder(files) == files

\* sort.Sort(hierachically(files)): the order is total on distinct strings,
\* so every sorting algorithm gives this list.
RECURSIVE SortHierachically(_)
SortHierachically(files) ==
    IF files = <<>> THEN <<>>
    ELSE InsertSorted(SortHierachically(Tail(files)), Head(files))

---------------------------------------------------------------------------
(* The file system the resolvers read (afero.Fs): the files, by their path *)
(* relative to the working directory.                                      *)

Files ==
    { <<"c.j">>, <<"h.l">>,
      <<"t", "c.j">>, <<"t", "h.l">>, <<"t", "a.l">>, <<"t", "a", "x.l">>,
      <<"t", "s", "h.l">>,
      <<"v", "m", "b.l">>, <<"v", "m", "s", "a.l">>, <<"v", "n", "a.l">> }

---------------------------------------------------------------------------
(* Pattern matching (doublestar).  A pattern is a path whose segments may  *)
(* hold "*" (any run of characters inside one segment) or be "**" (any     *)
(* number of directories); a "[" that is never closed is malformed.        *)

\* doublestar.ValidatePattern
ValidatePattern(pattern) ==
    \A i \in 1..Len(pattern) :
        \A k \in 1..Len(Chars(pattern[i])) : Chars(pattern[i])[k] # "["

RECURSIVE SegMatch(_, _)
SegMatch(pc, nc) ==
    IF pc = <<>> THEN nc = <<>>
    ELSE IF Head(pc) = "*"
         THEN SegMatch(Tail(pc), nc) \/ (nc # <<>> /\ SegMatch(pc, Tail(nc)))
         ELSE nc # <<>> /\ Head(pc) = Head(nc) /\ SegMatch(Tail(pc), Tail(nc))

\* doublestar's match of a whole path against a valid pattern.
RECURSIVE PathMatch(_, _)
PathMatch(pattern, file) ==
    IF pattern = <<>> THEN file = <<>>
    ELSE IF Head(pattern) = "**"
         THEN PathMatch(Tail(pattern), file)
              \/ (file # <<>> /\ PathMatch(pattern, Tail(file)))
         ELSE file # <<>>
              /\ SegMatch(Chars(Head(pattern)), Chars(Head(file)))
              /\ PathMatch(Tail(pattern), Tail(file))

RECURSIVE SetToSeq(_)
SetToSeq(S) ==
    IF S = {} THEN <<>>
    ELSE LET x == CHOOSE y \in S : TRUE
         IN  <<x>> \o SetToSeq(S \ {x})

\* A slip: a malformed pattern taken as a pattern that matches nothing.
executeGlobLenient(dir, pattern) ==
    LET pathPattern == Clean(Join(dir, pattern))
    IN  IF ~ValidatePattern(pathPattern)
        THEN [matches |-> <<>>, err |-> "none"]
        ELSE [matches |-> SetToSeq({f \in Files : PathMatch(pathPattern, f)}),
              err |-> "none"]

\* executeGlob: the pattern joined to the directory and cleaned, then
\* doublestar.Glob below the pattern's fixed base; each match is returned
\* as base joined with the match, that is as the file's clean path.
executeGlob(dir, pattern) ==
    LET pathPattern == Clean(Join(dir, pattern))
    IN  IF ~ValidatePattern(pathPattern)
        THEN [matches |-> <<>>, err |-> "ErrBadPattern"]
        ELSE [matches |-> SetToSeq({f \in Files : PathMatch(pathPattern, f)}),
              err |-> "none"]

\* removeExcludesFrom
RECURSIVE KeepNotExcluded(_, _)
KeepNotExcluded(files, exclude) ==
    IF files = <<>> THEN <<>>
    ELSE IF PathMatch(exclude, Head(files))
         THEN KeepNotExcluded(Tail(files), exclude)
         ELSE <<Head(files)>> \o KeepNotExcluded(Tail(files), exclude)

\* A slip: the exclusion filter returning its list also when it is empty.
removeExcludesFromNoCheck(files, exclude) ==
    IF ~ValidatePattern(exclude)
    THEN [files |-> <<>>, err |-> "ErrBadPattern"]
    ELSE [files |-> KeepNotExcluded(files, exclude), err |-> "none"]

removeExcludesFrom(files, exclude) ==
    IF ~ValidatePattern(exclude)
    THEN [files |-> <<>>, err |-> "ErrBadPattern"]
    ELSE LET keep == KeepNotExcluded(files, exclude)
         IN  IF keep = <<>>
             THEN [files |-> <<>>, err |-> "ErrEmptyResult"]
             ELSE [files |-> keep, err |-> "none"]

\* The matches of all search paths, appended in the order of the paths;
\* the first error ends the scan.
RECURSIVE GlobAll(_, _)
GlobAll(searchPaths, pattern) ==
    IF searchPaths = <<>> THEN [matches |-> <<>>, err |-> "none"]
    ELSE LET first == executeGlob(Head(searchPaths), pattern)
         IN  IF first.err # "none" THEN first
             ELSE LET rest == GlobAll(Tail(searchPaths), pattern)
                  IN  IF rest.err # "none" THEN rest
                      ELSE [matches |-> first.matches \o rest.matches,
                            err |-> "none"]

\* A slip: the caller directory scanned first (its matches lead the list).
resolveFilesFromCwdFirst(searchPaths, cwd, pattern, exclude) ==
    LET libs == GlobAll(searchPaths, pattern)
        own  == executeGlob(cwd, pattern)
    IN  IF libs.err # "none" THEN [files |-> <<>>, err |-> libs.err]
        ELSE IF own.err # "none" THEN [files |-> <<>>, err |-> own.err]
        ELSE LET resolvedFiles ==
                     SortHierachically(own.matches)
                         \o SortHierachically(libs.matches)
             IN  IF resolvedFiles = <<>>
                 THEN [files |-> <<>>, err |-> "ErrEmptyResult"]
                 ELSE IF exclude # <<>>
                      THEN removeExcludesFrom(resolvedFiles, exclude)
                      ELSE [files |-> resolvedFiles, err |-> "none"]

\* GlobImporter.resolveFilesFrom; exclude is g.excludePattern.
resolveFilesFrom(searchPaths, cwd, pattern, exclude) ==
    LET libs == GlobAll(searchPaths, pattern)
        own  == executeGlob(cwd, pattern)
    IN  IF libs.err # "none" THEN [files |-> <<>>, err |-> libs.err]
        ELSE IF own.err # "none" THEN [files |-> <<>>, err |-> own.err]
        ELSE LET resolvedFiles ==
                     SortHierachically(libs.matches)
                         \o SortHierachically(own.matches)
             IN  IF resolvedFiles = <<>>
                 THEN [files |-> <<>>, err |-> "ErrEmptyResult"]
                 ELSE IF exclude # <<>>
                      THEN removeExcludesFrom(resolvedFiles, exclude)
                      ELSE [files |-> resolvedFiles, err |-> "none"]

---------------------------------------------------------------------------
(* Construction.                                                           *)

\* An import address "[<scheme>://]<path>[?<query>]": the scheme, the path
\* (host and path, by segments) and the query as its <<key, value>> pairs.
Addr(scheme, path, query) == [scheme |-> scheme, path |-> path, query |-> query]

\* A file path or plain import string, as a vertex of the import graph.
PV(path) == Addr("", path, <<>>)

\* const importGraphFileName
importGraphFileName == <<"import_graph.gv">>

\* The prefixa NewGlobImporter registers.
GlobPrefixa ==
    { "glob.path", "glob.path+", "glob-str.path", "glob-str.path+",
      "glob.file", "glob.file+", "glob-str.file", "glob-str.file+",
      "glob.dir", "glob.dir+", "glob-str.dir", "glob-str.dir+",
      "glob.stem", "glob.stem+", "glob-str.stem", "glob-str.stem+",
      "glob+", "glob-str+" }

EmptyContents == [form |-> "", items |-> <<>>]

\* No substitute for missing files is configured.
NoSubstitute == [kind |-> "none", value |-> <<>>]

\* The record of the last call: the operation, its arguments, what it
\* returned, the steps it took and the number of Import calls so far.
NoCall ==
    [op |-> "none", importedFrom |-> <<>>, importedPath |-> PV(<<>>),
     contents |-> EmptyContents, foundAt |-> <<>>, err |-> "none",
     trace |-> <<>>, n |-> 0]

\* NewMultiImporter() with its default importers, NewGlobImporter() and
\* NewFallbackFileImporter().
InitImporters ==
    /\ importers = <<"GlobImporter", "FallbackFileImporter">>
    /\ logLevel = <<>>
    /\ ignoreImportCycles = FALSE
    /\ importGraph = [V |-> {}, E |-> {}]
    /\ importCounter = 0
    /\ importGraphFile = importGraphFileName
    /\ enableImportGraph = FALSE
    /\ dotFiles = <<>>
    /\ excludePattern = <<>>
    /\ prefixa = [k \in GlobPrefixa |-> ""]
    /\ aliases = <<>>
    /\ globCounter = 0
    /\ last = NoCall

importerVars ==
    <<importers, logLevel, ignoreImportCycles, importGraph, importCounter,
      importGraphFile, enableImportGraph, dotFiles, excludePattern,
      prefixa, aliases, globCounter, last>>

NoRes ==
    [phase |-> "idle", searchPaths |-> <<>>, cwd |-> <<>>, pattern |-> <<>>,
     exclude |-> <<>>, files |-> <<>>, err |-> "none"]

NoSrt == [phase |-> "idle", input |-> <<>>, output |-> <<>>]

NoRnd ==
    [phase |-> "idle", files |-> <<>>, prefix |-> "", canHandle |-> FALSE,
     contents |-> EmptyContents, err |-> "none"]

SeqsUpTo(S, n) == UNION {[1..k -> S] : k \in 0..n}

---------------------------------------------------------------------------
(* The import graph (github.com/dominikbraun/graph, directed, weighted,    *)
(* without PreventCycles): vertices by their hash, the string itself, and  *)
(* edges with weight and colour.  The drawing attributes of vertices are   *)
(* left out.                                                               *)

\* Graph.AddVertex; adding an existing vertex is an (ignored) error.
AddVertex(G, v) == [G EXCEPT !.V = @ \cup {v}]

HasEdge(G, s, t) == \E e \in G.E : e.src = s /\ e.dst = t

\* Graph.AddEdge: both vertices must exist and the edge must be new,
\* otherwise the (ignored) error leaves the graph as it is.
AddEdge(G, s, t, w, color) ==
    IF s \notin G.V \/ t \notin G.V \/ HasEdge(G, s, t) THEN G
    ELSE [G EXCEPT !.E = @ \cup
             {[src |-> s, dst |-> t, weight |-> w, color |-> color]}]

\* The PredecessorMap entry of a vertex.
Predecessors(G, v) == {e.src : e \in {x \in G.E : x.dst = v}}

\* The vertices graph.CreatesCycle visits: the source and its ancestors.
RECURSIVE Visit(_, _, _)
Visit(G, stack, visited) ==
    LET fresh == stack \ visited
    IN  IF fresh = {} THEN visited
        ELSE Visit(G, UNION {Predecessors(G, v) : v \in fresh},
                   visited \cup fresh)

\* A slip: the cycle test looking at the direct predecessors only.
CreatesCycleDirect(G, source, target) ==
    IF source \notin G.V \/ target \notin G.V THEN FALSE
    ELSE IF source = target THEN TRUE
    ELSE target \in Predecessors(G, source)

\* graph.CreatesCycle(g, source, target): the edge source -> target would
\* close a cycle when the target is the source or one of its ancestors.
CreatesCycle(G, source, target) ==
    IF source \notin G.V \/ target \notin G.V THEN FALSE
    ELSE IF source = target THEN TRUE
    ELSE target \in Visit(G, {source}, {})

---------------------------------------------------------------------------
(* MultiImporter.                                                          *)

\* url.Parse rejects an import string whose first segment starts with a
\* colon ("missing protocol scheme") and a host with an unclosed "[".
UrlParseFails(addr) ==
    /\ addr.path # <<>>
    /\ \/ addr.path[1] = ":"
       \/ addr.scheme # "" /\ addr.path[1] = "["

\* url.ParseQuery rejects a query with a semicolon; such a part of the
\* query is written as the pair <<";", <<>>>>.
ParseQueryFails(query) == \E i \in 1..Len(query) : query[i][1] = ";"

QueryHas(query, key) == \E i \in 1..Len(query) : query[i][1] = key

\* query[key][0]: the first value given for the key.
QueryFirst(query, key) ==
    query[CHOOSE i \in 1..Len(query) :
              /\ query[i][1] = key
              /\ \A j \in 1..(i - 1) : query[j][1] # key][2]

\* draw.DOT into m.fs.Create(file): the file then holds the graph.
WriteDot(files, file, G) ==
    [f \in DOMAIN files \cup {file} |-> IF f = file THEN G ELSE files[f]]

\* A slip: only the edge from the caller to the import string tested.
findImportCycleFirstOnly(G, counter, importedFrom, importedPath) ==
    LET cImportedFrom == PV(Clean(importedFrom))
        G1 == AddVertex(AddVertex(G, cImportedFrom), importedPath)
        resolvedPath == PV(Join(Dir(importedFrom), importedPath.path))
    IN  IF CreatesCycle(G1, cImportedFrom, importedPath)
        THEN [graph |-> AddEdge(G1, cImportedFrom, importedPath, counter, "red"),
              err |-> "ErrImportCycle", dump |-> TRUE]
        ELSE LET G2 == AddEdge(G1, cImportedFrom, importedPath, counter, "")
             IN  IF importedPath # resolvedPath
                 THEN [graph |-> AddEdge(AddVertex(G2, resolvedPath),
                                         importedPath, resolvedPath, counter, ""),
                       err |-> "none", dump |-> FALSE]
                 ELSE [graph |-> G2, err |-> "none", dump |-> FALSE]

\* A slip: a rejection that gives the graph back as it was handed in.
findImportCycleTransactional(G, counter, importedFrom, importedPath) ==
    LET cImportedFrom == PV(Clean(importedFrom))
        G1 == AddVertex(AddVertex(G, cImportedFrom), importedPath)
        G2 == AddEdge(G1, cImportedFrom, importedPath, counter, "")
        resolvedPath == PV(Join(Dir(importedFrom), importedPath.path))
        G3 == AddVertex(G2, resolvedPath)
    IN  IF CreatesCycle(G1, cImportedFrom, importedPath)
        THEN [graph |-> G, err |-> "ErrImportCycle", dump |-> TRUE]
        ELSE IF importedPath # resolvedPath
        THEN IF CreatesCycle(G3, importedPath, resolvedPath)
             THEN [graph |-> G, err |-> "ErrImportCycle", dump |-> TRUE]
             ELSE [graph |-> AddEdge(G3, importedPath, resolvedPath, counter, ""),
                   err |-> "none", dump |-> FALSE]
        ELSE [graph |-> G2, err |-> "none", dump |-> FALSE]

\* MultiImporter.findImportCycle(importedFrom, importedPath): the graph
\* after the call and the error; dump tells whether the DOT file is written.
findImportCycle(G, counter, importedFrom, importedPath) ==
    LET cImportedFrom == PV(Clean(importedFrom))
        G1 == AddVertex(AddVertex(G, cImportedFrom), importedPath)
    IN  IF CreatesCycle(G1, cImportedFrom, importedPath)
        THEN [graph |-> AddEdge(G1, cImportedFrom, importedPath, counter, "red"),
              err |-> "ErrImportCycle", dump |-> TRUE]
        ELSE LET G2 == AddEdge(G1, cImportedFrom, importedPath, counter, "")
                 resolvedPath ==
                     PV(Join(Dir(importedFrom), importedPath.path))
             IN  IF importedPath # resolvedPath
                 THEN LET G3 == AddVertex(G2, resolvedPath)
                      IN  IF CreatesCycle(G3, importedPath, resolvedPath)
                          THEN [graph |-> AddEdge(G3, importedPath,
                                                  resolvedPath, counter, "red"),
                                err |-> "ErrImportCycle", dump |-> TRUE]
                          ELSE [graph |-> AddEdge(G3, importedPath,
                                                  resolvedPath, counter, ""),
                                err |-> "none", dump |-> FALSE]
                 ELSE [graph |-> G2, err |-> "none", dump |-> FALSE]

\* The in-file configuration of a MultiImporter.
Config ==
    [logLevel |-> logLevel, ignoreImportCycles |-> ignoreImportCycles,
     importGraphFile |-> importGraphFile,
     enableImportGraph |-> enableImportGraph]

\* A slip: the cycle-check flag taken from the query, so that a query
\* without the parameter switches the check on again.
parseInFileConfigsToggle(cfg, rawQuery) ==
    IF ParseQueryFails(rawQuery)
    THEN [cfg |-> cfg, err |-> "ErrMalformedQuery"]
    ELSE LET c1 == IF QueryHas(rawQuery, "importGraph")
                   THEN [cfg EXCEPT
                            !.importGraphFile = QueryFirst(rawQuery, "importGraph"),
                            !.enableImportGraph = TRUE]
                   ELSE cfg
             c2 == [c1 EXCEPT !.ignoreImportCycles =
                                  QueryHas(rawQuery, "ignoreImportCycles")]
         IN  IF QueryHas(rawQuery, "logLevel")
             THEN LET c3 == [c2 EXCEPT !.logLevel = QueryFirst(rawQuery, "logLevel")]
                  IN  IF c3.logLevel \in {<<"debug">>, <<"info">>}
                      THEN [cfg |-> c3, err |-> "none"]
                      ELSE [cfg |-> c3, err |-> "ErrUnknownConfig"]
             ELSE [cfg |-> c2, err |-> "none"]

\* A slip: only the level "debug" is supported.
parseInFileConfigsDebugOnly(cfg, rawQuery) ==
    IF ParseQueryFails(rawQuery)
    THEN [cfg |-> cfg, err |-> "ErrMalformedQuery"]
    ELSE LET c1 == IF QueryHas(rawQuery, "importGraph")
                   THEN [cfg EXCEPT
                            !.importGraphFile = QueryFirst(rawQuery, "importGraph"),
                            !.enableImportGraph = TRUE]
                   ELSE cfg
             c2 == IF QueryHas(rawQuery, "ignoreImportCycles")
                   THEN [c1 EXCEPT !.ignoreImportCycles = TRUE]
                   ELSE c1
         IN  IF QueryHas(rawQuery, "logLevel")
             THEN LET c3 == [c2 EXCEPT !.logLevel = QueryFirst(rawQuery, "logLevel")]
                  IN  IF c3.logLevel = <<"debug">>
                      THEN [cfg |-> c3, err |-> "none"]
                      ELSE [cfg |-> c3, err |-> "ErrUnknownConfig"]
             ELSE [cfg |-> c2, err |-> "none"]

\* A slip: a query with an unsupported level is refused before any of its
\* settings is applied.
parseInFileConfigsAtomic(cfg, rawQuery) ==
    IF ParseQueryFails(rawQuery)
    THEN [cfg |-> cfg, err |-> "ErrMalformedQuery"]
    ELSE IF QueryHas(rawQuery, "logLevel")
            /\ QueryFirst(rawQuery, "logLevel") \notin {<<"debug">>, <<"info">>}
    THEN [cfg |-> cfg, err |-> "ErrUnknownConfig"]
    ELSE LET c1 == IF QueryHas(rawQuery, "importGraph")
                   THEN [cfg EXCEPT
                            !.importGraphFile = QueryFirst(rawQuery, "importGraph"),
                            !.enableImportGraph = TRUE]
                   ELSE cfg
             c2 == IF QueryHas(rawQuery, "ignoreImportCycles")
                   THEN [c1 EXCEPT !.ignoreImportCycles = TRUE]
                   ELSE c1
         IN  IF QueryHas(rawQuery, "logLevel")
             THEN [cfg |-> [c2 EXCEPT !.logLevel = QueryFirst(rawQuery, "logLevel")],
                   err |-> "none"]
             ELSE [cfg |-> c2, err |-> "none"]

\* MultiImporter.parseInFileConfigs(rawQuery): the configuration after the
\* call and the error.  The loggers themselves are not modelled.
parseInFileConfigs(cfg, rawQuery) ==
    IF ParseQueryFails(rawQuery)
    THEN [cfg |-> cfg, err |-> "ErrMalformedQuery"]
    ELSE LET c1 == IF QueryHas(rawQuery, "importGraph")
                   THEN [cfg EXCEPT
                            !.importGraphFile = QueryFirst(rawQuery, "importGraph"),
                            !.enableImportGraph = TRUE]
                   ELSE cfg
             c2 == IF QueryHas(rawQuery, "ignoreImportCycles")
                   THEN [c1 EXCEPT !.ignoreImportCycles = TRUE]
                   ELSE c1
         IN  IF QueryHas(rawQuery, "logLevel")
             THEN LET c3 == [c2 EXCEPT !.logLevel = QueryFirst(rawQuery, "logLevel")]
                  IN  IF c3.logLevel \in {<<"debug">>, <<"info">>}
                      THEN [cfg |-> c3, err |-> "none"]
                      ELSE [cfg |-> c3, err |-> "ErrUnknownConfig"]
             ELSE [cfg |-> c2, err |-> "none"]

\* A slip: the counter is never raised.
ParsedNotCounting(prefix, err, cfg, G, counter, dots, steps) ==
    [prefix |-> prefix, err |-> err, cfg |-> cfg, graph |-> G,
     counter |-> importCounter, dots |-> dots, steps |-> steps]

\* A slip: the counter raised for every call, whatever its outcome.
ParsedCountingAll(prefix, err, cfg, G, counter, dots, steps) ==
    [prefix |-> prefix, err |-> err, cfg |-> cfg, graph |-> G,
     counter |-> importCounter + 1, dots |-> dots, steps |-> steps]

\* What parseImportString leaves: the prefix and error it returns, the
\* state of the MultiImporter after it and the steps it took.
Parsed(prefix, err, cfg, G, counter, dots, steps) ==
    [prefix |-> prefix, err |-> err, cfg |-> cfg, graph |-> G,
     counter |-> counter, dots |-> dots, steps |-> steps]

\* A slip: the cycle test run for every scheme but "config".
parseImportStringAllSchemes(importedFrom, importedPath) ==
    IF UrlParseFails(importedPath)
    THEN Parsed("", "ErrMalformedImport", Config, importGraph, importCounter,
                dotFiles, <<"url.Parse">>)
    ELSE IF importedPath.scheme = "config"
    THEN LET c == parseInFileConfigs(Config, importedPath.query)
         IN  IF c.err # "none"
             THEN Parsed("", c.err, c.cfg, importGraph, importCounter,
                         dotFiles, <<"url.Parse", "parseInFileConfigs">>)
             ELSE Parsed("config", "none", c.cfg, importGraph, importCounter,
                         dotFiles, <<"url.Parse", "parseInFileConfigs">>)
    ELSE LET checked == ~ignoreImportCycles
             f == IF checked
                  THEN findImportCycle(importGraph, importCounter,
                                       importedFrom, importedPath)
                  ELSE [graph |-> importGraph, err |-> "none", dump |-> FALSE]
             d1 == IF f.dump THEN WriteDot(dotFiles, importGraphFile, f.graph)
                   ELSE dotFiles
             s1 == IF checked THEN <<"url.Parse", "findImportCycle">>
                   ELSE <<"url.Parse">>
         IN  IF f.err # "none"
             THEN Parsed("", "ErrImportCycle", Config, f.graph,
                         importCounter, d1, s1)
             ELSE Parsed(importedPath.scheme, "none", Config, f.graph,
                         importCounter + 1, d1, s1)

\* MultiImporter.parseImportString(importedFrom, importedPath).
parseImportString(importedFrom, importedPath) ==
    IF UrlParseFails(importedPath)
    THEN Parsed("", "ErrMalformedImport", Config, importGraph, importCounter,
                dotFiles, <<"url.Parse">>)
    ELSE IF importedPath.scheme = "config"
    THEN LET c == parseInFileConfigs(Config, importedPath.query)
         IN  IF c.err # "none"
             THEN Parsed("", c.err, c.cfg, importGraph, importCounter,
                         dotFiles, <<"url.Parse", "parseInFileConfigs">>)
             ELSE Parsed("config", "none", c.cfg, importGraph, importCounter,
                         dotFiles, <<"url.Parse", "parseInFileConfigs">>)
    ELSE IF importedPath.scheme = ""
    THEN LET checked == ~ignoreImportCycles
             f == IF checked
                  THEN findImportCycle(importGraph, importCounter,
                                       importedFrom, importedPath)
                  ELSE [graph |-> importGraph, err |-> "none", dump |-> FALSE]
             d1 == IF f.dump THEN WriteDot(dotFiles, importGraphFile, f.graph)
                   ELSE dotFiles
             s1 == IF checked THEN <<"url.Parse", "findImportCycle">>
                   ELSE <<"url.Parse">>
         IN  IF f.err # "none"
             THEN Parsed("", "ErrImportCycle", Config, f.graph,
                         importCounter, d1, s1)
             ELSE IF enableImportGraph
             THEN Parsed("", "none", Config, f.graph, importCounter + 1,
                         WriteDot(d1, importGraphFile, f.graph),
                         Append(s1, "storeImportGraph"))
             ELSE Parsed("", "none", Config, f.graph, importCounter + 1, d1, s1)
    ELSE Parsed(importedPath.scheme, "none", Config, importGraph,
                importCounter + 1, dotFiles, <<"url.Parse">>)

---------------------------------------------------------------------------
(* GlobImporter.                                                           *)

\* NewGlobImporter() is given no library search paths.
JPaths == <<>>

\* A slip: only the aliases of the prefixa are tested.
GlobCanHandleAlias(pfx, path) ==
    LET cs == Chars(path)
    IN  \E k \in DOMAIN pfx :
            PrefixOf(Chars(pfx[k]), cs) /\ Len(Chars(pfx[k])) > 0

\* GlobImporter.CanHandle(path)
GlobCanHandle(pfx, path) ==
    LET cs == Chars(path)
    IN  \E k \in DOMAIN pfx :
            \/ PrefixOf(Chars(k), cs)
            \/ PrefixOf(Chars(pfx[k]), cs) /\ Len(Chars(pfx[k])) > 0

\* The self-references "./" put in front of the caller in foundAt.
SelfRefs(n) == [i \in 1..n |-> "."]

\* The pattern of GlobImporter.parse: host and path joined with "/".
HostAndPath(path) ==
    IF path = <<>> THEN <<"">>
    ELSE <<Head(path), "">> \o Tail(path)

\* allowedFiles(files, ignoreFile)
RECURSIVE allowedFiles(_, _)
allowedFiles(files, ignoreFile) ==
    IF files = <<>> THEN <<>>
    ELSE IF Head(files) = ignoreFile
         THEN allowedFiles(Tail(files), ignoreFile)
         ELSE <<Head(files)>> \o allowedFiles(Tail(files), ignoreFile)

\* The length of the longest common prefix of two cleaned paths.
RECURSIVE CommonLen(_, _)
CommonLen(b, t) ==
    IF b = <<>> \/ t = <<>> \/ Head(b) # Head(t) THEN 0
    ELSE 1 + CommonLen(Tail(b), Tail(t))

\* filepath.Rel(basepath, targpath) of relative paths; its error leaves "".
Rel(basepath, targpath) ==
    LET b  == CleanSegs(<<>>, basepath)
        t  == CleanSegs(<<>>, targpath)
        n  == CommonLen(b, t)
        rb == SubSeq(b, n + 1, Len(b))
        rt == SubSeq(t, n + 1, Len(t))
    IN  IF rb # <<>> /\ rb[1] = ".." THEN <<>>
        ELSE IF rb = <<>> /\ rt = <<>> THEN <<".">>
        ELSE [i \in 1..Len(rb) |-> ".."] \o rt

\* A slip: without extend, the first value of a key is kept.
addKeepFirst(o, key, value, extend) ==
    IF \A i \in 1..Len(o) : o[i].key # key
    THEN Append(o, [key |-> key, imports |-> <<value>>])
    ELSE [i \in 1..Len(o) |->
            IF o[i].key = key
            THEN [o[i] EXCEPT !.imports =
                     IF extend THEN Append(@, value) ELSE @]
            ELSE o[i]]

\* orderedMap.add(key, value, extend)
add(o, key, value, extend) ==
    IF \A i \in 1..Len(o) : o[i].key # key
    THEN Append(o, [key |-> key, imports |-> <<value>>])
    ELSE [i \in 1..Len(o) |->
            IF o[i].key = key
            THEN [o[i] EXCEPT !.imports =
                     IF extend THEN Append(@, value) ELSE <<value>>]
            ELSE o[i]]

\* strings.Cut(filename, "."): what stands before the first dot.
RECURSIVE CutAtDot(_)
CutAtDot(cs) ==
    IF cs = <<>> \/ Head(cs) = "." THEN <<>>
    ELSE <<Head(cs)>> \o CutAtDot(Tail(cs))

\* The dir part of filepath.Split(f), with its trailing slash.
DirStr(f) == IF Len(f) <= 1 THEN <<>> ELSE Str(Dir(f)) \o <<"/">>

\* The key handle() files an import under.
KeyOf(kind, f) ==
    CASE kind = "stem" -> CutAtDot(Chars(Base(f)))
      [] kind = "file" -> Chars(Base(f))
      [] kind = "dir"  -> DirStr(f)

RECURSIVE Collect(_, _, _, _, _)
Collect(o, files, kind, importKind, extend) ==
    IF files = <<>> THEN o
    ELSE Collect(add(o, KeyOf(kind, Head(files)),
                     [kind |-> importKind, file |-> Head(files)], extend),
                 Tail(files), kind, importKind, extend)

\* A slip: the string variant of a prefix is not turned into its prefix.
KeepStr(pc) == pc

\* handle: "glob-str" at the head of the prefix replaced by "glob".
AsGlobPrefix(pc) ==
    IF PrefixOf(Chars("glob-str"), pc)
    THEN Chars("glob") \o SubSeq(pc, Len(Chars("glob-str")) + 1, Len(pc))
    ELSE pc

\* A slip: the flat merge keeps one include per file name, the last one.
FlatMergeByName(files, importKind) ==
    LET o == Collect(<<>>, files, "file", importKind, FALSE)
    IN  [i \in 1..Len(o) |-> [key |-> <<>>, imports |-> o[i].imports]]

\* handle, case "glob+": one include per file, in the order of the files.
FlatMerge(files, importKind) ==
    [i \in 1..Len(files) |->
        [key |-> <<>>,
         imports |-> <<[kind |-> importKind, file |-> files[i]]>>]]

\* GlobImporter.handle(files, prefix): the contents, as the form of the
\* Jsonnet text and its entries in order, and the error.
handle(al, files, prefix) ==
    LET pc  == Chars(prefix)
        str == HasPrefix(prefix, "glob-str")
        importKind == IF str THEN "importstr" ELSE "import"
        p1  == AsGlobPrefix(pc)
        p2  == IF \E a \in DOMAIN al : Chars(a) = p1
               THEN Chars(al[CHOOSE a \in DOMAIN al : Chars(a) = p1])
               ELSE p1
        extend == SuffixOf(Chars("+"), p2)
        one(f) == [kind |-> importKind, file |-> f]
    IN  CASE p2 = Chars("glob+") ->
               [contents |-> [form |-> "sum",
                              items |-> FlatMerge(files, importKind)],
                err |-> "none"]
          [] p2 \in {Chars("glob.path"), Chars("glob.path+")} ->
               [contents |-> [form |-> "paths",
                              items |-> [i \in 1..Len(files) |->
                                  [key |-> Str(files[i]),
                                   imports |-> <<one(files[i])>>]]],
                err |-> "none"]
          [] p2 \in {Chars("glob.stem"), Chars("glob.stem+")} ->
               [contents |-> [form |-> "object",
                              items |-> Collect(<<>>, files, "stem", importKind, extend)],
                err |-> "none"]
          [] p2 \in {Chars("glob.file"), Chars("glob.file+")} ->
               [contents |-> [form |-> "object",
                              items |-> Collect(<<>>, files, "file", importKind, extend)],
                err |-> "none"]
          [] p2 \in {Chars("glob.dir"), Chars("glob.dir+")} ->
               [contents |-> [form |-> "object",
                              items |-> Collect(<<>>, files, "dir", importKind, extend)],
                err |-> "none"]
          [] OTHER -> [contents |-> EmptyContents, err |-> "ErrUnknownPrefix"]

\* The edges the GlobImporter draws from the import string to its files.
RECURSIVE AddGlobEdges(_, _, _, _)
AddGlobEdges(G, importedPath, files, counter) ==
    IF files = <<>> THEN G
    ELSE AddGlobEdges(
             AddEdge(AddVertex(G, PV(Head(files))), importedPath,
                     PV(Head(files)), counter, "grey"),
             importedPath, Tail(files), counter)

RECURSIVE RelAll(_, _)
RelAll(basepath, files) ==
    IF files = <<>> THEN <<>>
    ELSE <<Rel(basepath, Head(files))>> \o RelAll(basepath, Tail(files))

\* What GlobImporter.Import returns and leaves behind.
GlobResult(contents, foundAt, err, G, exclude) ==
    [contents |-> contents, foundAt |-> foundAt, err |-> err,
     graph |-> G, exclude |-> exclude]

\* GlobImporter.Import, from the call of handle on: G holds the edges to
\* the files already.
GlobImportHandled(G, exclude, foundAt, h) ==
    IF h.err # "none"
    THEN GlobResult(EmptyContents, foundAt, h.err, G, exclude)
    ELSE GlobResult(h.contents, foundAt, "none", G, exclude)

\* GlobImporter.Import, from the list of allowed files on.
GlobImportAllowed(G, counter, exclude, al, foundAt, importedPath, files) ==
    GlobImportHandled(
        AddGlobEdges(AddVertex(G, importedPath), importedPath, files, counter),
        exclude, foundAt, handle(al, files, importedPath.scheme))

\* GlobImporter.Import, from the result r of resolveFilesFrom on.
GlobImportResolved(G, counter, exclude, al, foundAt, importedFrom, importedPath, r) ==
    IF r.err # "none"
    THEN GlobResult(EmptyContents, foundAt, r.err, G, exclude)
    ELSE GlobImportAllowed(G, counter, exclude, al, foundAt, importedPath,
             RelAll(Dir(importedFrom), allowedFiles(r.files, importedFrom)))

\* GlobImporter.Import, after parse has set the exclude pattern.
GlobImportParsed(G, counter, exclude, al, foundAt, importedFrom, importedPath) ==
    GlobImportResolved(G, counter, exclude, al, foundAt, importedFrom,
        importedPath,
        resolveFilesFrom(JPaths, Clean(Dir(importedFrom)),
                         HostAndPath(importedPath.path), exclude))

\* GlobImporter.Import(importedFrom, importedPath) on the graph and counter
\* handed over by setImportGraph: what it returns, the graph and the
\* exclude pattern it leaves.
GlobImport(G, counter, exclude, al, importedFrom, importedPath) ==
    IF UrlParseFails(importedPath) \/ ParseQueryFails(importedPath.query)
    THEN GlobResult(EmptyContents,
                    SelfRefs(counter) \o <<".">> \o importedFrom,
                    "ErrMalformedGlobPattern", G, exclude)
    ELSE GlobImportParsed(G, counter,
             IF QueryHas(importedPath.query, "exclude")
             THEN QueryFirst(importedPath.query, "exclude")
             ELSE exclude,
             al, SelfRefs(counter) \o <<".">> \o importedFrom,
             importedFrom, importedPath)

---------------------------------------------------------------------------
(* FallbackFileImporter: jsonnet.FileImporter without library paths.       *)

\* A slip: the file is looked up in the working directory.
FileImportFromCwd(importedFrom, importedPath) ==
    IF importedPath.scheme = "" /\ importedPath.query = <<>>
       /\ Clean(importedPath.path) \in Files
    THEN [contents |-> [form |-> "file",
                        items |-> <<[key |-> Str(Clean(importedPath.path)),
                                     imports |-> <<>>]>>],
          foundAt |-> Clean(importedPath.path), err |-> "none"]
    ELSE [contents |-> EmptyContents, foundAt |-> <<>>,
          err |-> "ErrNotFound"]

\* FileImporter.Import: the file is looked up relative to the caller.
FileImport(importedFrom, importedPath) ==
    LET absPath == Join(Dir(importedFrom), importedPath.path)
    IN  IF importedPath.scheme = "" /\ importedPath.query = <<>>
           /\ absPath \in Files
        THEN [contents |-> [form |-> "file",
                            items |-> <<[key |-> Str(absPath), imports |-> <<>>]>>],
              foundAt |-> absPath, err |-> "none"]
        ELSE [contents |-> EmptyContents, foundAt |-> <<>>,
              err |-> "ErrNotFound"]

---------------------------------------------------------------------------
(* Spec: a MultiImporter with its default importers, driven by go-jsonnet  *)
(* through Import and by the host program through its setters.             *)

\* Importer.CanHandle(prefix) of the importer with the given type.
CanHandle(importer, prefix) ==
    IF importer = "GlobImporter" THEN GlobCanHandle(prefixa, prefix) ELSE TRUE

\* A slip: the last importer that can handle the prefix is taken.
LastImporter(prefix) ==
    LET can == {i \in 1..Len(importers) : CanHandle(importers[i], prefix)}
    IN  IF can = {} THEN 0 ELSE CHOOSE i \in can : \A j \in can : i >= j

\* The first importer of m.importers that can handle the prefix, 0 if none.
FirstImporter(prefix) ==
    LET can == {i \in 1..Len(importers) : CanHandle(importers[i], prefix)}
    IN  IF can = {} THEN 0 ELSE CHOOSE i \in can : \A j \in can : i <= j

\* What the importer the call is handed to returns and leaves behind;
\* name is the importer's type, "" when no importer can handle the prefix.
Handed(name, r, G, exclude) ==
    [name |-> name, contents |-> r.contents, foundAt |-> r.foundAt,
     err |-> r.err, graph |-> G, exclude |-> exclude]

NoImporter == [contents |-> EmptyContents, foundAt |-> <<>>, err |-> "ErrNoImporter"]

\* The loop over m.importers: the first importer that can handle the
\* prefix gets the graph and the counter and imports.
HandOver(i, G, counter, importedFrom, importedPath) ==
    IF i = 0 THEN Handed("", NoImporter, G, excludePattern)
    ELSE IF importers[i] = "GlobImporter"
    THEN [name |-> "GlobImporter"]
             @@ GlobImport(G, counter, excludePattern, aliases,
                           importedFrom, importedPath)
    ELSE Handed(importers[i], FileImport(importedFrom, importedPath),
                G, excludePattern)

\* A slip: what the importer returned is passed on as it is.
ReturnedAsIs(r) ==
    [contents |-> r.contents, foundAt |-> r.foundAt, err |-> r.err]

\* What Import returns for the result r of the importer.
Returned(r) ==
    IF r.err # "none"
    THEN [contents |-> EmptyContents, foundAt |-> <<>>, err |-> r.err]
    ELSE [contents |-> r.contents, foundAt |-> r.foundAt, err |-> "none"]

\* The state Import leaves: p is what parseImportString left, r what the
\* importer left, out what Import returns.
Leave(importedFrom, importedPath, p, r, out, called) ==
    /\ logLevel' = p.cfg.logLevel
    /\ ignoreImportCycles' = p.cfg.ignoreImportCycles
    /\ importGraphFile' = p.cfg.importGraphFile
    /\ enableImportGraph' = p.cfg.enableImportGraph
    /\ importGraph' = r.graph
    /\ importCounter' = p.counter
    /\ dotFiles' = p.dots
    /\ excludePattern' = r.exclude
    /\ globCounter' = IF r.name = "GlobImporter" THEN p.counter ELSE globCounter
    /\ last' = [op |-> "Import", importedFrom |-> importedFrom,
                importedPath |-> importedPath,
                contents |-> out.contents, foundAt |-> out.foundAt,
                err |-> out.err, trace |-> p.steps \o called,
                n |-> last.n + 1]
    /\ UNCHANGED <<importers, prefixa, aliases, res, srt, rnd>>

\* Import after parseImportString, handing the call to an importer.
Route(importedFrom, importedPath, p, r) ==
    Leave(importedFrom, importedPath, p, r, Returned(r),
          IF r.name = "" THEN <<>> ELSE <<r.name \o ".Import">>)

\* Import after parseImportString.
Parse(importedFrom, importedPath, p) ==
    IF p.err # "none"
    THEN Leave(importedFrom, importedPath, p,
               [name |-> "", graph |-> p.graph, exclude |-> excludePattern],
               [contents |-> EmptyContents, foundAt |-> <<>>, err |-> p.err],
               <<>>)
    ELSE IF p.prefix = "config"
    THEN Leave(importedFrom, importedPath, p,
               [name |-> "", graph |-> p.graph, exclude |-> excludePattern],
               [contents |-> [form |-> "{}", items |-> <<>>],
                foundAt |-> <<>>, err |-> "none"],
               <<>>)
    ELSE Route(importedFrom, importedPath, p,
               HandOver(FirstImporter(p.prefix), p.graph, p.counter,
                        importedFrom, importedPath))

\* MultiImporter.Import(importedFrom, importedPath)
Import(importedFrom, importedPath) ==
    /\ last.n < MaxImports
    /\ Parse(importedFrom, importedPath,
             parseImportString(importedFrom, importedPath))
    /\ UNCHANGED onMissingFile

\* MultiImporter.IgnoreImportCycles()
IgnoreImportCycles ==
    /\ ignoreImportCycles' = TRUE
    /\ last' = [NoCall EXCEPT !.op = "IgnoreImportCycles", !.n = last.n]
    /\ UNCHANGED <<importers, logLevel, importGraph, importCounter,
                   importGraphFile, enableImportGraph, dotFiles,
                   excludePattern, prefixa, aliases, globCounter, res, srt,
                   rnd, onMissingFile>>

\* MultiImporter.SetImportGraphFile(name)
SetImportGraphFile(name) ==
    /\ importGraphFile' = name
    /\ enableImportGraph' = TRUE
    /\ last' = [NoCall EXCEPT !.op = "SetImportGraphFile", !.n = last.n]
    /\ UNCHANGED <<importers, logLevel, ignoreImportCycles, importGraph,
                   importCounter, dotFiles, excludePattern, prefixa, aliases,
                   globCounter, res, srt, rnd, onMissingFile>>

\* The files that import.
Callers == { <<"h.l">>, <<"t", "c.j">>, <<"t", "h.l">>, <<".", "t", "c.j">> }

\* Plain import strings, the last one not parsable as a URL.
PlainAddresses ==
    { PV(<<"h.l">>), PV(<<"..", "h.l">>), PV(<<"t", "c.j">>), PV(<<":">>) }

\* Import strings with a prefix of the GlobImporter, and one with a scheme
\* no importer has registered.
GlobAddresses ==
    { Addr("glob.stem+", <<"*.l">>, <<>>),
      Addr("glob+", <<"*.x">>, << <<"exclude", <<"**", "*h.l">>>> >>),
      Addr("http", <<"c.j">>, <<>>) }

\* Import strings of the in-file configuration.
ConfigAddresses ==
    { Addr("config", <<"set">>, q) :
        q \in { << <<"ignoreImportCycles", <<>>>> >>,
                << <<"importGraph", <<"g.gv">>>> >>,
                << <<"logLevel", <<"debug">>>> >>,
                << <<"logLevel", <<"x">>>>, <<"ignoreImportCycles", <<>>>> >>,
                << <<";", <<>>>> >> } }

Calls ==
    (Callers \X PlainAddresses)
        \cup ({<<"t", "c.j">>} \X GlobAddresses)
        \cup ({<<"t", "c.j">>} \X ConfigAddresses)

Init == InitImporters /\ res = NoRes /\ srt = NoSrt /\ rnd = NoRnd
    /\ onMissingFile = NoSubstitute

Next ==
    \/ \E call \in Calls : Import(call[1], call[2])
    \/ IgnoreImportCycles
    \/ SetImportGraphFile(<<"g.gv">>)

Spec == Init /\ [][Next]_vars

---------------------------------------------------------------------------
(* SpecGlob: the default MultiImporter importing through the GlobImporter, *)
(* whose exclude pattern the host program may also set.                    *)

\* GlobImporter.Exclude(pattern)
Exclude(pattern) ==
    /\ excludePattern' = pattern
    /\ last' = [NoCall EXCEPT !.op = "Exclude", !.n = last.n]
    /\ UNCHANGED <<importers, logLevel, ignoreImportCycles, importGraph,
                   importCounter, importGraphFile, enableImportGraph,
                   dotFiles, prefixa, aliases, globCounter, res, srt,
                   rnd, onMissingFile>>

\* The importing file, as the evaluator may spell it.
GlobCallers == { <<"t", "c.j">>, <<".", "t", "c.j">> }

\* Import strings of the flat merge: a pattern that matches only the caller,
\* one that matches the caller and others, one that matches others only,
\* one that matches nothing, and patterns with an exclude parameter.
PatternAddresses ==
    { Addr("glob+", <<"*.j">>, <<>>),
      Addr("glob+", <<"*">>, <<>>),
      Addr("glob+", <<"*.l">>, <<>>),
      Addr("glob+", <<"*.x">>, <<>>),
      Addr("glob+", <<"*.l">>, << <<"exclude", <<"**", "*h.l">>>> >>),
      Addr("glob+", <<"**", "*.l">>, << <<"exclude", <<"**", "*.l">>>> >>) }

GlobCalls == GlobCallers \X PatternAddresses

InitGlob == InitImporters /\ res = NoRes /\ srt = NoSrt /\ rnd = NoRnd
    /\ onMissingFile = NoSubstitute

NextGlob ==
    \/ \E call \in GlobCalls : Import(call[1], call[2])
    \/ Exclude(<<"**", "*a.l">>)

SpecGlob == InitGlob /\ [][NextGlob]_vars

---------------------------------------------------------------------------
(* SpecRouting: MultiImporters constructed with the default importers or   *)
(* with an explicit list of importers, importing addresses of every kind.  *)

\* The lists NewMultiImporter is constructed with; the empty list yields
\* the default, the GlobImporter before the FallbackFileImporter.
Registries ==
    { <<"GlobImporter", "FallbackFileImporter">>,
      <<"GlobImporter">>,
      <<"FallbackFileImporter", "GlobImporter">> }

\* Import strings with the prefixes of the pattern resolver, with and
\* without "+", one with a string-import prefix, a plain one and one with
\* a scheme no importer has registered.
RoutedAddresses ==
    { Addr(p, <<"*.l">>, <<>>) :
        p \in { "glob", "glob+", "glob.path", "glob.path+", "glob.file",
                "glob.file+", "glob.dir", "glob.dir+", "glob.stem",
                "glob.stem+", "glob-str.stem" } }
        \cup { PV(<<"h.l">>), Addr("http", <<"c.j">>, <<>>) }

RoutedCalls == { <<"t", "c.j">> } \X RoutedAddresses

InitRouting ==
    /\ importers \in Registries
    /\ logLevel = <<>>
    /\ ignoreImportCycles = FALSE
    /\ importGraph = [V |-> {}, E |-> {}]
    /\ importCounter = 0
    /\ importGraphFile = importGraphFileName
    /\ enableImportGraph = FALSE
    /\ dotFiles = <<>>
    /\ excludePattern = <<>>
    /\ prefixa = [k \in GlobPrefixa |-> ""]
    /\ aliases = <<>>
    /\ globCounter = 0
    /\ last = NoCall
    /\ res = NoRes /\ srt = NoSrt /\ rnd = NoRnd
    /\ onMissingFile = NoSubstitute

NextRouting == \E call \in RoutedCalls : Import(call[1], call[2])

SpecRouting == InitRouting /\ [][NextRouting]_vars

---------------------------------------------------------------------------
(* SpecSession: one session of a MultiImporter, constructed with the       *)
(* default importers or with the GlobImporter alone, that is given         *)
(* configurations, plain imports that build cycles, and glob imports that  *)
(* fail.                                                                   *)

SessionRegistries ==
    { <<"GlobImporter", "FallbackFileImporter">>, <<"GlobImporter">> }

\* Queries of the configuration: the supported log levels, an unsupported
\* one alone and next to other settings, and a query that cannot be parsed.
SessionConfigs ==
    { Addr("config", <<"set">>, q) :
        q \in { << <<"logLevel", <<"debug">>>> >>,
                << <<"logLevel", <<"info">>>> >>,
                << <<"logLevel", <<"x">>>> >>,
                << <<"logLevel", <<"x">>>>, <<"importGraph", <<"g.gv">>>>,
                   <<"ignoreImportCycles", <<>>>> >>,
                << <<";", <<>>>> >> } }

\* h.l imports t/c.j and "a.l", a file that does not exist beside it;
\* t/c.j imports "h.l" and "a.l" (files of its own directory), itself as
\* "c.j", and a string that is no URL.
SessionImports ==
    { << <<"h.l">>, PV(<<"t", "c.j">>) >>,
      << <<"h.l">>, PV(<<"a.l">>) >>,
      << <<"t", "c.j">>, PV(<<"h.l">>) >>,
      << <<"t", "c.j">>, PV(<<"a.l">>) >>,
      << <<"t", "c.j">>, PV(<<"c.j">>) >>,
      << <<"t", "c.j">>, PV(<<":">>) >> }

\* Glob imports: one that renders, one that matches nothing, and one whose
\* prefix passes CanHandle but is no prefix handle knows.
SessionGlobs ==
    { Addr("glob+", <<"*.l">>, <<>>),
      Addr("glob+", <<"*.x">>, <<>>),
      Addr("glob.paths", <<"*.l">>, <<>>) }

SessionCalls ==
    SessionImports \cup ({ <<"t", "c.j">> } \X (SessionConfigs \cup SessionGlobs))

InitSession ==
    /\ importers \in SessionRegistries
    /\ logLevel = <<>>
    /\ ignoreImportCycles = FALSE
    /\ importGraph = [V |-> {}, E |-> {}]
    /\ importCounter = 0
    /\ importGraphFile = importGraphFileName
    /\ enableImportGraph = FALSE
    /\ dotFiles = <<>>
    /\ excludePattern = <<>>
    /\ prefixa = [k \in GlobPrefixa |-> ""]
    /\ aliases = <<>>
    /\ globCounter = 0
    /\ last = NoCall
    /\ res = NoRes /\ srt = NoSrt /\ rnd = NoRnd
    /\ onMissingFile = NoSubstitute

NextSession == \E call \in SessionCalls : Import(call[1], call[2])

SpecSession == InitSession /\ [][NextSession]_vars

---------------------------------------------------------------------------
(* SpecAlias: the default MultiImporter whose GlobImporter is given alias  *)
(* prefixa by the host program, between the imports.                       *)

\* The record of a call of AddAliasPrefix: its arguments and its error.
AliasCall(alias, prefix, err) ==
    [NoCall EXCEPT !.op = "AddAliasPrefix", !.trace = <<alias, prefix>>,
                   !.err = err, !.n = last.n]

\* A slip: the alias is bound without a look at the prefix.
AddAliasPrefixUnchecked(alias, prefix) ==
    /\ prefixa' = (prefix :> alias) @@ prefixa
    /\ aliases' = (alias :> prefix) @@ aliases
    /\ last' = AliasCall(alias, prefix, "none")
    /\ UNCHANGED <<importers, logLevel, ignoreImportCycles, importGraph,
                   importCounter, importGraphFile, enableImportGraph,
                   dotFiles, excludePattern, globCounter, res, srt, rnd, onMissingFile>>

\* GlobImporter.AddAliasPrefix(alias, prefix)
AddAliasPrefix(alias, prefix) ==
    /\ IF prefix \notin DOMAIN prefixa
       THEN /\ last' = AliasCall(alias, prefix, "ErrUnknownPrefix")
            /\ UNCHANGED <<prefixa, aliases>>
       ELSE /\ prefixa' = [prefixa EXCEPT ![prefix] = alias]
            /\ aliases' = (alias :> prefix) @@ aliases
            /\ last' = AliasCall(alias, prefix, "none")
    /\ UNCHANGED <<importers, logLevel, ignoreImportCycles, importGraph,
                   importCounter, importGraphFile, enableImportGraph,
                   dotFiles, excludePattern, globCounter, res, srt, rnd, onMissingFile>>

\* The aliases the host program registers.
AliasNames == { "stem", "s" }

\* The prefixa it registers them for; the last one is no prefix of the
\* GlobImporter.
AliasedPrefixa == { "glob.stem", "glob.path", "glob-str.stem", "glob.paths" }

\* Imports of t/c.j through the aliases and through the prefixa themselves.
AliasCalls ==
    { <<"t", "c.j">> } \X
        { Addr(prefix, <<"*.l">>, <<>>) :
            prefix \in AliasNames
                         \cup {"glob.stem", "glob.path", "glob-str.stem"} }

InitAlias == InitImporters /\ res = NoRes /\ srt = NoSrt /\ rnd = NoRnd
    /\ onMissingFile = NoSubstitute

NextAlias ==
    \/ \E alias \in AliasNames, prefix \in AliasedPrefixa :
          AddAliasPrefix(alias, prefix)
    \/ \E call \in AliasCalls : Import(call[1], call[2])

SpecAlias == InitAlias /\ [][NextAlias]_vars

---------------------------------------------------------------------------
(* SpecMissing: a MultiImporter with the handling of missing files of      *)
(* v0.0.6-alpha (README, "Handling Of Missing Files"): a configuration     *)
(* address sets onMissingFile, and an import the FallbackFileImporter      *)
(* finds no file for gets the configured content or file instead.          *)

\* The value is a content: it stands between two quotes of one kind.
IsQuoted(value) ==
    /\ Len(value) = 1
    /\ Len(Chars(value[1])) >= 2
    /\ Chars(value[1])[1] \in {"\"", "'"}
    /\ Chars(value[1])[Len(Chars(value[1]))] = Chars(value[1])[1]

\* The content between the quotes.
Unquoted(value) == SubSeq(Chars(value[1]), 2, Len(Chars(value[1])) - 1)

\* The setting after a configuration address with the given query.
OnMissingFileOf(setting, rawQuery) ==
    IF ~QueryHas(rawQuery, "onMissingFile") THEN setting
    ELSE IF IsQuoted(QueryFirst(rawQuery, "onMissingFile"))
    THEN [kind |-> "content",
          value |-> Unquoted(QueryFirst(rawQuery, "onMissingFile"))]
    ELSE [kind |-> "file", value |-> QueryFirst(rawQuery, "onMissingFile")]

\* What Import returns when the FallbackFileImporter returned out: for a
\* file not found the configured content, or the configured file, looked
\* up like an import of the same caller.
Substituted(setting, importedFrom, importedPath, out) ==
    IF out.err # "ErrNotFound" \/ setting.kind = "none" THEN out
    ELSE IF setting.kind = "content"
    THEN [contents |-> [form |-> "content",
                        items |-> <<[key |-> setting.value, imports |-> <<>>]>>],
          foundAt |-> Join(Dir(importedFrom), importedPath.path),
          err |-> "none"]
    ELSE Returned(FileImport(importedFrom, PV(setting.value)))

\* Import after parseImportString, handing the call to an importer.
RouteOrSubstitute(importedFrom, importedPath, p, r) ==
    /\ Leave(importedFrom, importedPath, p, r,
             IF r.name = "FallbackFileImporter"
             THEN Substituted(onMissingFile, importedFrom, importedPath,
                              Returned(r))
             ELSE Returned(r),
             IF r.name = "" THEN <<>> ELSE <<r.name \o ".Import">>)
    /\ UNCHANGED onMissingFile

\* Import after parseImportString.
ParseOrSubstitute(importedFrom, importedPath, p) ==
    IF p.err # "none"
    THEN /\ Leave(importedFrom, importedPath, p,
                  [name |-> "", graph |-> p.graph, exclude |-> excludePattern],
                  [contents |-> EmptyContents, foundAt |-> <<>>, err |-> p.err],
                  <<>>)
         /\ UNCHANGED onMissingFile
    ELSE IF p.prefix = "config"
    THEN /\ Leave(importedFrom, importedPath, p,
                  [name |-> "", graph |-> p.graph, exclude |-> excludePattern],
                  [contents |-> [form |-> "{}", items |-> <<>>],
                   foundAt |-> <<>>, err |-> "none"],
                  <<>>)
         /\ onMissingFile' = OnMissingFileOf(onMissingFile, importedPath.query)
    ELSE RouteOrSubstitute(importedFrom, importedPath, p,
             HandOver(FirstImporter(p.prefix), p.graph, p.counter,
                      importedFrom, importedPath))

\* MultiImporter.Import(importedFrom, importedPath) of v0.0.6-alpha
ImportOrSubstitute(importedFrom, importedPath) ==
    /\ last.n < MaxImports
    /\ ParseOrSubstitute(importedFrom, importedPath,
                         parseImportString(importedFrom, importedPath))

\* Two files of the directory t import.
MissingCallers == { <<"t", "c.j">>, <<"t", "h.l">> }

\* They import a file that is not there, one that is and a string that is
\* no URL, and they set onMissingFile to a content and to a file of their
\* directory.
MissingAddresses ==
    { PV(<<"x.l">>), PV(<<"a.l">>),
      PV(<<":">>),
      Addr("glob+", <<"*.x">>, <<>>),
      Addr("config", <<"set">>, << <<"onMissingFile", <<"\"{}\"">>>> >>),
      Addr("config", <<"set">>, << <<"onMissingFile", <<"'[]'">>>> >>),
      Addr("config", <<"set">>, << <<"onMissingFile", <<"h.l">>>> >>),
      Addr("config", <<"set">>, << <<"logLevel", <<"info">>>> >>) }

MissingCalls == MissingCallers \X MissingAddresses

InitMissing == InitImporters /\ res = NoRes /\ srt = NoSrt /\ rnd = NoRnd
    /\ onMissingFile = NoSubstitute

NextMissing ==
    \E call \in MissingCalls : ImportOrSubstitute(call[1], call[2])

SpecMissing == InitMissing /\ [][NextMissing]_vars

---------------------------------------------------------------------------
(* SpecSort: sort.Sort(hierachically(files)) on lists of paths.            *)

\* The list of README.md ("Sorts the resolved files") and its sorted form.
ReadmeList ==
    << <<"a0">>, <<"b02">>, <<"a0", "b", "c">>, <<"a1">>, <<"d", "x">>,
       <<"c">>, <<"b2">>, <<"a1", "b">>, <<"b10">> >>

ReadmeSorted ==
    << <<"a0">>, <<"a0", "b", "c">>, <<"a1">>, <<"a1", "b">>, <<"b02">>,
       <<"b10">>, <<"b2">>, <<"c">>, <<"d", "x">> >>

SortPaths ==
    { <<"a">>, <<"a", "x.l">>, <<"a", "b", "c">>, <<"a.l">>, <<"a-b">>,
      <<"a0">>, <<"b">> }

SortInputs == SeqsUpTo(SortPaths, MaxSortLen) \cup {ReadmeList}

InitSort ==
    /\ InitImporters
    /\ res = NoRes
    /\ rnd = NoRnd
    /\ onMissingFile = NoSubstitute
    /\ srt \in {[phase |-> "in", input |-> l, output |-> <<>>] : l \in SortInputs}

Sort ==
    /\ srt.phase = "in"
    /\ srt' = [srt EXCEPT !.phase = "out",
                          !.output = SortHierachically(srt.input)]
    /\ UNCHANGED <<importerVars, res, rnd, onMissingFile>>

NextSort == Sort

SpecSort == InitSort /\ [][NextSort]_vars

---------------------------------------------------------------------------
(* SpecResolve: GlobImporter.resolveFilesFrom on search paths, a caller    *)
(* directory, a pattern and an exclude pattern.                            *)

\* The last root is a directory that does not exist.
Roots == { <<"v", "m">>, <<"v", "n">>, <<"t">>, <<"x">> }
Cwds == { <<"t">>, <<".">>, <<"v", "n">> }
Patterns == { <<"*.l">>, <<"**", "*.l">>, <<"h.l">>, <<"*.x">>, <<"[">> }
Excludes == { <<>>, <<"**", "*h.l">>, <<"**", "*.l">>, <<"[">> }

InitResolve ==
    /\ InitImporters
    /\ srt = NoSrt
    /\ rnd = NoRnd
    /\ onMissingFile = NoSubstitute
    /\ res \in {[phase |-> "in", searchPaths |-> sp, cwd |-> c, pattern |-> p,
                 exclude |-> e, files |-> <<>>, err |-> "none"] :
                    sp \in SeqsUpTo(Roots, MaxRoots), c \in Cwds,
                    p \in Patterns, e \in Excludes}

Resolve ==
    /\ res.phase = "in"
    /\ LET r == resolveFilesFrom(res.searchPaths, res.cwd, res.pattern,
                                 res.exclude)
       IN  res' = [res EXCEPT !.phase = "out", !.files = r.files,
                              !.err = r.err]
    /\ UNCHANGED <<importerVars, srt, rnd, onMissingFile>>

NextResolve == Resolve

SpecResolve == InitResolve /\ [][NextResolve]_vars

---------------------------------------------------------------------------
(* SpecRender: GlobImporter.CanHandle and GlobImporter.handle on the file  *)
(* lists GlobImporter.Import hands over, for every registered prefix and   *)
(* for the bare prefix "glob".                                             *)

RenderCallers == { <<"t", "c.j">>, <<"c.j">> }
RenderPatterns == { <<"*.l">>, <<"**", "*.l">>, <<"*.j">> }

\* The lists GlobImporter.Import hands to handle: the resolved files
\* without the caller, relative to the directory of the caller.
ResolvedLists ==
    { RelAll(Dir(c),
             allowedFiles(resolveFilesFrom(sp, Clean(Dir(c)), pat, <<>>).files, c)) :
        sp \in SeqsUpTo(Roots, MaxRoots), c \in RenderCallers,
        pat \in RenderPatterns }

RenderPrefixa == GlobPrefixa \cup {"glob"}

InitRender ==
    /\ InitImporters
    /\ res = NoRes
    /\ srt = NoSrt
    /\ rnd \in {[NoRnd EXCEPT !.phase = "in", !.files = fl, !.prefix = p] :
                    fl \in ResolvedLists, p \in RenderPrefixa}
    /\ onMissingFile = NoSubstitute

Render ==
    /\ rnd.phase = "in"
    /\ LET h == handle(aliases, rnd.files, rnd.prefix)
       IN  rnd' = [rnd EXCEPT !.phase = "out",
                              !.canHandle = GlobCanHandle(prefixa, rnd.prefix),
                              !.contents = h.contents,
                              !.err = h.err]
    /\ UNCHANGED <<importerVars, res, srt, onMissingFile>>

NextRender == Render

SpecRender == InitRender /\ [][NextRender]_vars

---------------------------------------------------------------------------
(* Properties of the MultiImporter (Spec).  A step is a call of Import     *)
(* when last'.op is "Import"; last' then holds its arguments and results,  *)
(* the unprimed variables the state the call started in.                   *)

\* The vertices a set of edges leads to from the vertices S (S included).
RECURSIVE PathsFrom(_, _)
PathsFrom(E, S) ==
    LET next == S \cup {e.dst : e \in {x \in E : x.src \in S}}
    IN  IF next = S THEN S ELSE PathsFrom(E, next)

\* The edges lead from a to b (in no step when a = b).
HasPath(E, a, b) == b \in PathsFrom(E, {a})

\* The edges the cycle test let pass.
Accepted(G) == {e \in G.E : e.color = ""}

\* The edges drawn by the MultiImporter (those of the GlobImporter are grey).
DispatcherEdges(G) == {e \in G.E : e.color # "grey"}

EdgePairs(G) == {<<e.src, e.dst>> : e \in G.E}

\* The graph with the edge s -> t drawn, if there is none yet.
WithEdge(G, s, t, w, color) ==
    [V |-> G.V \cup {s, t},
     E |-> IF <<s, t>> \in EdgePairs(G) THEN G.E
           ELSE G.E \cup {[src |-> s, dst |-> t, weight |-> w, color |-> color]}]

IsPlain(addr) == addr.scheme = "" /\ ~UrlParseFails(addr)

Resolvers == {"GlobImporter.Import", "FallbackFileImporter.Import"}

ResolverInvoked(trace) == \E i \in 1..Len(trace) : trace[i] \in Resolvers

\* The step is a call of Import with a plain import string while the test
\* for import cycles is enabled.
CheckedImport ==
    last'.op = "Import" /\ ~ignoreImportCycles /\ IsPlain(last'.importedPath)

\* The vertices of the call: the caller, the import string and the import
\* string resolved against the caller's directory.
CallerVertex(call) == PV(Clean(call.importedFrom))
ResolvedVertex(call) == PV(Join(Dir(call.importedFrom), call.importedPath.path))

\* C1 as the specification states it: an import that closes a chain of
\* accepted edges fails with ImportCycle and leaves the vertices and edges
\* of the graph as they were.
C1_Original_GraphUnchangedOnRejection ==
    [][ (/\ CheckedImport
         /\ HasPath(Accepted(importGraph), last'.importedPath, CallerVertex(last')))
        => /\ last'.err = "ErrImportCycle"
           /\ importGraph' = importGraph ]_vars

\* C1: with the cycle test enabled, an import from caller vn of address v1
\* when accepted edges lead from v1 to vn (or v1 is vn) fails with
\* ImportCycle; the graph afterwards is the graph before plus the rejected
\* edge vn -> v1, red and weighted with the counter (and its two vertices);
\* the counter is unchanged and no importer is invoked.
C1_RejectedEdgeDrawnRed ==
    [][ (/\ CheckedImport
         /\ HasPath(Accepted(importGraph), last'.importedPath, CallerVertex(last')))
        => /\ last'.err = "ErrImportCycle"
           /\ importGraph' = WithEdge(importGraph, CallerVertex(last'),
                                      last'.importedPath, importCounter, "red")
           /\ importCounter' = importCounter
           /\ ~ResolverInvoked(last'.trace) ]_vars

\* A rejected import whose import string led back to the caller over at
\* least one accepted edge; the rejected edge is in the graph, red.
C1_Witness ==
    /\ last.op = "Import" /\ last.err = "ErrImportCycle"
    /\ last.importedPath # CallerVertex(last)
    /\ HasPath(Accepted(importGraph), last.importedPath, CallerVertex(last))
    /\ \E e \in importGraph.E :
          /\ e.src = CallerVertex(last) /\ e.dst = last.importedPath
          /\ e.color = "red"

\* Both edges of the call are in the graph as accepted edges.
BothCommitted(G, call) ==
    /\ \E e \in Accepted(G) :
          e.src = CallerVertex(call) /\ e.dst = call.importedPath
    /\ \E e \in Accepted(G) :
          e.src = call.importedPath /\ e.dst = ResolvedVertex(call)

\* C2 as the specification states it, for the imports that pass the first
\* test (the address does not lead to the caller): rejected when the
\* resolved path leads back to the caller, and both edges committed when it
\* does not.
C2_Original_CommittedUnlessResolvedLeadsBack ==
    [][ (/\ CheckedImport /\ ResolvedVertex(last') # last'.importedPath
         /\ ~HasPath(importGraph.E, last'.importedPath, CallerVertex(last')))
        => IF HasPath(importGraph.E, ResolvedVertex(last'), CallerVertex(last'))
           THEN last'.err = "ErrImportCycle"
           ELSE BothCommitted(importGraph', last') ]_vars

\* C2: with the cycle test enabled, an import from c of an address a whose
\* resolved path r = join(dir(c), a) differs from a is rejected with
\* ImportCycle whenever the graph leads from r to clean(c) (r = clean(c)
\* included), also when a itself does not lead to c; both edges c -> a and
\* a -> r are committed when the graph leads neither from a to clean(c)
\* nor from r to clean(c) nor from r to a.
C2_SecondTestOnResolvedPath ==
    [][ (CheckedImport /\ ResolvedVertex(last') # last'.importedPath)
        => LET c == CallerVertex(last')
               a == last'.importedPath
               r == ResolvedVertex(last')
               E == importGraph.E
           IN  /\ HasPath(E, r, c) => last'.err = "ErrImportCycle"
               /\ (~HasPath(E, a, c) /\ ~HasPath(E, r, c) /\ ~HasPath(E, r, a))
                    => /\ last'.err # "ErrImportCycle"
                       /\ BothCommitted(importGraph', last') ]_vars

\* An import rejected by the second test: the edge from the caller to the
\* import string was accepted, the edge on to the resolved path is red.
C2_Witness ==
    /\ last.op = "Import" /\ last.err = "ErrImportCycle"
    /\ ResolvedVertex(last) # last.importedPath
    /\ \E e \in Accepted(importGraph) :
          e.src = CallerVertex(last) /\ e.dst = last.importedPath
    /\ \E e \in importGraph.E :
          /\ e.src = last.importedPath /\ e.dst = ResolvedVertex(last)
          /\ e.color = "red"

\* The position of a step in the trace of a call, 0 when it was not taken.
StepAt(trace, step) ==
    IF \A i \in 1..Len(trace) : trace[i] # step THEN 0
    ELSE CHOOSE i \in 1..Len(trace) : trace[i] = step

\* The cycle test ran, and before any importer was invoked.
TestedFirst(trace) ==
    /\ StepAt(trace, "findImportCycle") # 0
    /\ \A i \in 1..Len(trace) :
          trace[i] \in Resolvers => StepAt(trace, "findImportCycle") < i

\* The step is a call of Import with an import string that url.Parse takes
\* and whose scheme is neither empty nor "config".
PrefixedImport ==
    /\ last'.op = "Import" /\ ~ignoreImportCycles
    /\ ~UrlParseFails(last'.importedPath)
    /\ last'.importedPath.scheme \notin {"", "config"}

\* C3 as the specification states it: the edge from the caller to the
\* address is cycle-tested and recorded for the addresses with a prefix of
\* the GlobImporter as it is for the plain ones.
C3_Original_AllAddressesTested ==
    [][ (CheckedImport \/ PrefixedImport)
        => /\ TestedFirst(last'.trace)
           /\ <<CallerVertex(last'), last'.importedPath>>
                  \in EdgePairs(importGraph') ]_vars

\* C3: while the cycle test is enabled, for every Import call with a plain
\* address (no scheme) the edge from the caller to the address is
\* cycle-tested and recorded in the graph before any importer is invoked,
\* and a rejected call invokes no importer; a call whose address carries a
\* glob prefix or any other scheme but "config" is not cycle-tested and no
\* edge from the caller to the address is recorded.
C3_PlainAddressesTestedBeforeResolving ==
    [][ /\ CheckedImport
          => /\ TestedFirst(last'.trace)
             /\ <<CallerVertex(last'), last'.importedPath>>
                    \in EdgePairs(importGraph')
             /\ last'.err = "ErrImportCycle" => ~ResolverInvoked(last'.trace)
        /\ PrefixedImport
          => /\ StepAt(last'.trace, "findImportCycle") = 0
             /\ <<CallerVertex(last'), last'.importedPath>>
                    \notin EdgePairs(importGraph') ]_vars

\* A plain import that passed the test and then reached the file importer,
\* its edge recorded.
C3_Witness ==
    /\ last.op = "Import" /\ IsPlain(last.importedPath)
    /\ last.trace = <<"url.Parse", "findImportCycle",
                      "FallbackFileImporter.Import">>
    /\ <<CallerVertex(last), last.importedPath>> \in EdgePairs(importGraph)

\* The graph with the vertices and, where there is none yet between the
\* same two vertices, the edges added.
Plus(G, vs, es) ==
    [V |-> G.V \cup vs,
     E |-> G.E \cup {e \in es : <<e.src, e.dst>> \notin EdgePairs(G)}]

Edge(s, t, w, color) == [src |-> s, dst |-> t, weight |-> w, color |-> color]

\* C4: findImportCycle(c, a) leaves the graph as the tests expect it.  When
\* it accepts, the graph is the graph before plus the edge clean(c) -> a
\* and, if r = join(dir(c), a) differs from a, plus the edge a -> r.  When
\* it rejects, the error is ErrImportCycle and the graph is the graph
\* before plus the edge that closed the cycle, red: clean(c) -> a when a
\* leads to clean(c), else the accepted clean(c) -> a and the red a -> r.
C4_GraphAfterFindImportCycle ==
    [][ CheckedImport
        => LET c == CallerVertex(last')
               a == last'.importedPath
               r == ResolvedVertex(last')
               w == importCounter
               G == importGraph
           IN  IF last'.err # "ErrImportCycle"
               THEN importGraph' =
                        IF r # a
                        THEN Plus(Plus(G, {c, a}, {Edge(c, a, w, "")}),
                                  {r}, {Edge(a, r, w, "")})
                        ELSE Plus(G, {c, a}, {Edge(c, a, w, "")})
               ELSE IF HasPath(G.E, a, c)
               THEN importGraph' = Plus(G, {c, a}, {Edge(c, a, w, "red")})
               ELSE /\ r # a
                    /\ importGraph' =
                           Plus(Plus(G, {c, a}, {Edge(c, a, w, "")}),
                                {r}, {Edge(a, r, w, "red")}) ]_vars

\* An accepted import of an address written relative to its caller: both
\* edges are in the graph with the weight of the call.
C4_Witness ==
    /\ last.op = "Import" /\ IsPlain(last.importedPath)
    /\ last.err = "none" /\ importCounter = 2
    /\ ResolvedVertex(last) # last.importedPath
    /\ Edge(CallerVertex(last), last.importedPath, 1, "") \in importGraph.E
    /\ Edge(last.importedPath, ResolvedVertex(last), 1, "") \in importGraph.E

\* The step is a call of Import with a configuration address.
ConfigImport ==
    /\ last'.op = "Import" /\ ~UrlParseFails(last'.importedPath)
    /\ last'.importedPath.scheme = "config"

\* What a configuration call must leave alone.
ConfigFrame ==
    /\ ~ResolverInvoked(last'.trace)
    /\ importGraph' = importGraph
    /\ importCounter' = importCounter
    /\ UNCHANGED <<importers, dotFiles, excludePattern, prefixa, aliases,
                   globCounter>>

\* C5 as the specification states it: every call with a configuration
\* address returns the no-op result.
C5_Original_ConfigAlwaysNoOp ==
    [][ ConfigImport
        => /\ last'.err = "none"
           /\ last'.contents = [form |-> "{}", items |-> <<>>]
           /\ last'.foundAt = <<>>
           /\ ConfigFrame ]_vars

\* The query is one parseInFileConfigs takes.
AcceptedQuery(q) ==
    /\ \A i \in 1..Len(q) : q[i][1] # ";"
    /\ \A i \in 1..Len(q) :
          (q[i][1] = "logLevel" /\ \A j \in 1..(i - 1) : q[j][1] # "logLevel")
              => q[i][2] \in {<<"debug">>, <<"info">>}

\* C5: an Import call with a configuration address returns the no-op result
\* (content '{}', empty foundAt) when its query is accepted, and otherwise
\* an error (unknown configuration or malformed query) with empty content;
\* in both cases no importer is invoked, no vertex or edge is added, the
\* counter is unchanged and only the configuration may change.
C5_ConfigCallTouchesOnlyConfig ==
    [][ ConfigImport
        => /\ IF AcceptedQuery(last'.importedPath.query)
              THEN /\ last'.err = "none"
                   /\ last'.contents = [form |-> "{}", items |-> <<>>]
              ELSE /\ last'.err \in {"ErrUnknownConfig", "ErrMalformedQuery"}
                   /\ last'.contents = EmptyContents
           /\ last'.foundAt = <<>>
           /\ ConfigFrame ]_vars

\* A configuration call answered with '{}' after an import had drawn edges
\* and raised the counter.
C5_Witness ==
    /\ last.op = "Import" /\ last.importedPath.scheme = "config"
    /\ last.err = "none" /\ last.contents = [form |-> "{}", items |-> <<>>]
    /\ importCounter = 1 /\ importGraph.E # {}
    /\ ignoreImportCycles

\* C6: once the test for import cycles is disabled it stays disabled: no
\* later step enables it, no later Import call returns ErrImportCycle and
\* no later call adds an edge of the MultiImporter to the graph.
C6_CycleCheckStaysDisabled ==
    [][ ignoreImportCycles
        => /\ ignoreImportCycles'
           /\ last'.op = "Import" => last'.err # "ErrImportCycle"
           /\ DispatcherEdges(importGraph') = DispatcherEdges(importGraph) ]_vars

\* With the test disabled, a file imported itself and the call reached the
\* file importer; the graph holds no edge of the MultiImporter for it.
C6_Witness ==
    /\ ignoreImportCycles
    /\ last.op = "Import" /\ IsPlain(last.importedPath)
    /\ last.importedPath = CallerVertex(last)
    /\ last.trace = <<"url.Parse", "FallbackFileImporter.Import">>
    /\ DispatcherEdges(importGraph) = {}

---------------------------------------------------------------------------
(* Properties of the resolution (SpecResolve) and of the sort (SpecSort).  *)

\* How often x occurs in a list.
Count(list, x) == Cardinality({i \in 1..Len(list) : list[i] = x})

\* Order of two paths segment by segment: the first differing segment
\* decides, by its characters; a path precedes its extensions.
RECURSIVE PathLexLess(_, _)
PathLexLess(p, q) ==
    IF q = <<>> THEN FALSE
    ELSE IF p = <<>> THEN TRUE
    ELSE IF Head(p) = Head(q) THEN PathLexLess(Tail(p), Tail(q))
    ELSE StrLess(Chars(Head(p)), Chars(Head(q)))

Ascending(list) ==
    \A i, j \in 1..Len(list) : i < j => ~PathLexLess(list[j], list[i])

\* The file is a match of the pattern under the directory.
MatchUnder(dir, pattern, f) == f \in Files /\ PathMatch(Clean(dir \o pattern), f)

\* The library roots (by position) under which the file is a match.
RootsOf(f) ==
    {i \in 1..Len(res.searchPaths) : MatchUnder(res.searchPaths[i], res.pattern, f)}

Excluded(f) == res.exclude # <<>> /\ PathMatch(res.exclude, f)

\* A resolution whose patterns are well formed has run.
Resolved ==
    /\ res.phase = "out"
    /\ ValidatePattern(res.pattern)
    /\ ValidatePattern(res.exclude)

\* The number of entries of the result that come from the library roots.
LibLen ==
    Cardinality({<<i, f>> \in (1..Len(res.searchPaths)) \X Files :
                    i \in RootsOf(f) /\ ~Excluded(f)})

LibPart == SubSeq(res.files, 1, LibLen)
CwdPart == SubSeq(res.files, LibLen + 1, Len(res.files))

\* C7: a successful resolution returns every (not excluded) match of the
\* library roots, once per root it is found under, and after them the (not
\* excluded) matches of the caller directory: caller matches are last.
C7_LibraryMatchesBeforeCallerMatches ==
    (res.phase = "out" /\ res.err = "none") =>
        /\ LibLen <= Len(res.files)
        /\ \A f \in Files :
              /\ Count(LibPart, f)
                    = IF Excluded(f) THEN 0 ELSE Cardinality(RootsOf(f))
              /\ Count(CwdPart, f)
                    = IF ~Excluded(f) /\ MatchUnder(res.cwd, res.pattern, f)
                      THEN 1 ELSE 0

\* A resolution where a caller match comes last although its path sorts
\* before a library match.
C7_Witness ==
    /\ res.phase = "out" /\ res.err = "none"
    /\ LibPart # <<>> /\ CwdPart # <<>>
    /\ PathLexLess(CwdPart[1], LibPart[1])

\* C8 as stated: the matches of an earlier configured library root precede
\* the matches of a later one.
C8_Original_RootOrderKept ==
    (res.phase = "out" /\ res.err = "none") =>
        \A a, b \in 1..LibLen :
            \A i \in RootsOf(res.files[b]), j \in RootsOf(res.files[a]) :
                (a < b /\ i < j) =>
                    (i \in RootsOf(res.files[a]) \/ j \in RootsOf(res.files[b]))

\* C8 (amended): the matches of all library roots are sorted together, by
\* path, whatever the configured order of the roots; the caller
\* directory's matches, sorted on their own, follow.
C8_LibraryMatchesSortedTogether ==
    (res.phase = "out" /\ res.err = "none") =>
        /\ LibLen <= Len(res.files)
        /\ Ascending(LibPart)
        /\ Ascending(CwdPart)

\* Two roots configured against the order of their names, each with a
\* match of its own: the later root's match comes first.
C8_Witness ==
    /\ res.phase = "out" /\ res.err = "none"
    /\ \E a, b \in 1..LibLen :
          /\ a < b
          /\ RootsOf(res.files[a]) = {2}
          /\ RootsOf(res.files[b]) = {1}

\* The files directly inside a directory precede every file inside its
\* subdirectories.
OwnFilesFirst(list) ==
    \A i, j \in 1..Len(list) :
        (i < j) =>
            ~(/\ Len(Dir(list[j])) < Len(Dir(list[i]))
              /\ SubSeq(Dir(list[i]), 1, Len(Dir(list[j]))) = Dir(list[j]))

---------------------------------------------------------------------------
(* Properties of the resolution (SpecResolve), continued.                  *)

\* C13 as the specification states it: a successful resolution returns no
\* file path twice, also when a library root and the caller directory (or
\* two library roots) yield the same file.
C13_Original_NoDuplicates ==
    (res.phase = "out" /\ res.err = "none") =>
        \A f \in Files : Count(res.files, f) <= 1

\* C13, what the code does: a file is in the result once for every source
\* (library root, by position, or caller directory) it is a match under,
\* so a path is there twice exactly when two sources yield it.
C13_OncePerSource ==
    (res.phase = "out" /\ res.err = "none") =>
        \A f \in Files :
            Count(res.files, f) =
                IF Excluded(f) THEN 0
                ELSE Cardinality(RootsOf(f))
                       + (IF MatchUnder(res.cwd, res.pattern, f) THEN 1 ELSE 0)

\* A resolution whose library root is the caller directory: a file of that
\* directory is in the result once for the root and once for the caller.
C13_Witness ==
    /\ res.phase = "out" /\ res.err = "none"
    /\ res.searchPaths = <<res.cwd>>
    /\ \E f \in Files : Count(res.files, f) = 2

---------------------------------------------------------------------------
(* Properties of the glob imports (SpecGlob).                              *)

\* The step is a call of Import that the GlobImporter served.
GlobImported ==
    /\ last'.op = "Import"
    /\ \E i \in 1..Len(last'.trace) : last'.trace[i] = "GlobImporter.Import"

\* The files the rendered expression includes.
IncludedFiles(contents) ==
    UNION { { contents.items[i].imports[j].file :
                j \in 1..Len(contents.items[i].imports) } :
            i \in 1..Len(contents.items) }

\* The files on disk that match the pattern of the address under the
\* directory of the caller and do not match the exclude pattern ex.
Kept(importedFrom, importedPath, ex) ==
    { f \in Files :
        /\ PathMatch(Clean(Join(Clean(Dir(importedFrom)),
                                HostAndPath(importedPath.path))), f)
        /\ ~(ex # <<>> /\ PathMatch(ex, f)) }

\* The exclude pattern a call with this address resolves with.
ExcludeFor(importedPath) ==
    IF QueryHas(importedPath.query, "exclude")
    THEN QueryFirst(importedPath.query, "exclude")
    ELSE excludePattern

\* C11 as the specification states it: a glob import that succeeds renders
\* an expression that includes at least one file.
C11_Original_SuccessIncludesAFile ==
    [][(GlobImported /\ last'.err = "none")
          => IncludedFiles(last'.contents) # {}]_vars

\* C11, what the code does: EmptyResult is decided on the matches that
\* remain after the exclusion, before the caller's own file is removed; a
\* call whose only remaining match is the caller itself succeeds with an
\* expression that includes nothing.
C11_EmptyResultDecidedBeforeSelfRemoval ==
    [][GlobImported =>
          LET kept == Kept(last'.importedFrom, last'.importedPath,
                           ExcludeFor(last'.importedPath))
          IN  /\ (last'.err = "ErrEmptyResult") <=> (kept = {})
              /\ (kept # {}) => (last'.err = "none")
              /\ (last'.err = "none" /\ IncludedFiles(last'.contents) = {})
                    <=> (kept = {last'.importedFrom})]_vars

\* t/c.j has imported "glob+://*.j", which matches t/c.j only: the call
\* succeeded and the flat merge holds no include.
C11_Witness ==
    /\ last.op = "Import" /\ last.err = "none"
    /\ last.importedFrom = <<"t", "c.j">>
    /\ last.importedPath = Addr("glob+", <<"*.j">>, <<>>)
    /\ last.contents = [form |-> "sum", items |-> <<>>]

\* The file on disk an include of the rendered expression reads: the
\* include is relative to the directory of the caller.
IncludedPath(importedFrom, f) == Clean(Join(Dir(importedFrom), f))

\* C12 as the specification states it: whatever the spelling of the caller
\* path, the rendered expression never includes the importing file.
C12_Original_NeverIncludesCaller ==
    [][(GlobImported /\ last'.err = "none") =>
          \A f \in IncludedFiles(last'.contents) :
              IncludedPath(last'.importedFrom, f) # Clean(last'.importedFrom)]_vars

\* C12, what the code does: the caller is removed by comparing its path as
\* passed with the cleaned paths of the matches, so the importing file is
\* left out when the caller path is passed clean, and is included when it
\* is a match and the caller path is spelled otherwise.
C12_CallerRemovedOnlyWhenSpelledClean ==
    [][(GlobImported /\ last'.err = "none") =>
          LET from == last'.importedFrom
              self == \E f \in IncludedFiles(last'.contents) :
                          IncludedPath(from, f) = Clean(from)
          IN  self <=>
                 /\ from # Clean(from)
                 /\ Clean(from) \in Kept(from, last'.importedPath,
                                          ExcludeFor(last'.importedPath))]_vars

\* "./t/c.j" has imported "glob+://*.j": the expression includes c.j, the
\* importing file itself.
C12_Witness ==
    /\ last.op = "Import" /\ last.err = "none"
    /\ last.importedFrom = <<".", "t", "c.j">>
    /\ last.importedPath = Addr("glob+", <<"*.j">>, <<>>)
    /\ IncludedFiles(last.contents) = { <<"c.j">> }

\* C15 as the specification states it: the exclude parameter of an address
\* applies to the resolution of that address only, so a call of Import
\* leaves the exclusion state of the resolver as it found it.
C15_Original_ExcludeOfAddressIsDropped ==
    [][last'.op = "Import" => excludePattern' = excludePattern]_vars

\* C15, what the code does: the exclude parameter of an address replaces
\* the exclude pattern of the resolver and stays; an address without the
\* parameter is resolved with the pattern the resolver holds, be it from
\* Exclude() or from an earlier address.
C15_ExcludeOfAddressStays ==
    [][GlobImported =>
          /\ excludePattern' = ExcludeFor(last'.importedPath)
          /\ (last'.err = "none") =>
                IncludedFiles(last'.contents) =
                    { Rel(Dir(last'.importedFrom), f) :
                        f \in Kept(last'.importedFrom, last'.importedPath,
                                   excludePattern')
                               \ {last'.importedFrom} }]_vars

\* After an import with "?exclude=**/*h.l", the import of "glob+://*.l",
\* which has no exclude parameter, was resolved without t/h.l: the
\* resolver still holds the pattern of the earlier address.
C15_Witness ==
    /\ last.op = "Import" /\ last.n = 2 /\ last.err = "none"
    /\ last.importedPath = Addr("glob+", <<"*.l">>, <<>>)
    /\ excludePattern = <<"**", "*h.l">>
    /\ IncludedFiles(last.contents) = { <<"a.l">> }

---------------------------------------------------------------------------
(* Properties of the rendering (SpecRender).                               *)

\* The merge policy of a prefix: the "+" suffix concatenates.
Concatenating(prefix) == HasSuffix(prefix, "+")

\* The grouping mode of a prefix, "none" for the prefixes without one.
Grouping(prefix) ==
    CASE prefix \in {"glob.stem", "glob.stem+", "glob-str.stem", "glob-str.stem+"}
            -> "stem"
      [] prefix \in {"glob.file", "glob.file+", "glob-str.file", "glob-str.file+"}
            -> "file"
      [] prefix \in {"glob.dir", "glob.dir+", "glob-str.dir", "glob-str.dir+"}
            -> "dir"
      [] OTHER -> "none"

\* The include expression of a file under a prefix.
IncludeOf(prefix, f) ==
    [kind |-> IF HasPrefix(prefix, "glob-str") THEN "importstr" ELSE "import",
     file |-> f]

\* The positions of the files that have the key.
PositionsOf(kind, files, key) ==
    {i \in 1..Len(files) : KeyOf(kind, files[i]) = key}

\* The j-th smallest and the greatest member of a set of positions.
Nth(S, j) == CHOOSE i \in S : Cardinality({k \in S : k <= i}) = j
MaxOf(S) == CHOOSE i \in S : \A k \in S : k <= i

\* C16: for the file, dir and stem grouping the render has one entry per
\* group key of the files; without "+" the entry is the include of the
\* last file of the list that has the key, with "+" it is the includes of
\* all files that have the key in the order of the list, so that every
\* position of the list is rendered exactly once.
C16_GroupingAndMergePolicy ==
    (rnd.phase = "out" /\ Grouping(rnd.prefix) # "none") =>
        LET kind  == Grouping(rnd.prefix)
            items == rnd.contents.items
        IN  /\ rnd.err = "none"
            /\ rnd.contents.form = "object"
            /\ \A i, j \in 1..Len(items) : items[i].key = items[j].key => i = j
            /\ {items[i].key : i \in 1..Len(items)}
                  = {KeyOf(kind, rnd.files[i]) : i \in 1..Len(rnd.files)}
            /\ \A i \in 1..Len(items) :
                  LET pos == PositionsOf(kind, rnd.files, items[i].key)
                  IN  IF Concatenating(rnd.prefix)
                      THEN /\ Len(items[i].imports) = Cardinality(pos)
                           /\ \A j \in 1..Len(items[i].imports) :
                                 items[i].imports[j]
                                   = IncludeOf(rnd.prefix, rnd.files[Nth(pos, j)])
                      ELSE items[i].imports
                             = <<IncludeOf(rnd.prefix, rnd.files[MaxOf(pos)])>>

\* A render under the overwrite policy of a list in which two different
\* files have the same group key.
C16_Witness ==
    /\ rnd.phase = "out" /\ rnd.err = "none"
    /\ Grouping(rnd.prefix) # "none" /\ ~Concatenating(rnd.prefix)
    /\ \E i, j \in 1..Len(rnd.files) :
          /\ i < j /\ rnd.files[i] # rnd.files[j]
          /\ KeyOf(Grouping(rnd.prefix), rnd.files[i])
                = KeyOf(Grouping(rnd.prefix), rnd.files[j])
    /\ Len(rnd.contents.items) < Len(rnd.files)

\* C17: the flat merge "glob+" renders the sum of one import per file of
\* the list, in the order of the list, whatever keys the files would have.
C17_FlatMergeIncludesEveryFileInOrder ==
    (rnd.phase = "out" /\ rnd.prefix = "glob+") =>
        /\ rnd.err = "none"
        /\ rnd.contents.form = "sum"
        /\ Len(rnd.contents.items) = Len(rnd.files)
        /\ \A i \in 1..Len(rnd.files) :
              rnd.contents.items[i]
                = [key |-> <<>>,
                   imports |-> <<[kind |-> "import", file |-> rnd.files[i]]>>]

\* A flat merge of a list in which two different files have the same file
\* name: both are included.
C17_Witness ==
    /\ rnd.phase = "out" /\ rnd.prefix = "glob+"
    /\ \E i, j \in 1..Len(rnd.files) :
          /\ i < j /\ rnd.files[i] # rnd.files[j]
          /\ Base(rnd.files[i]) = Base(rnd.files[j])
    /\ Len(rnd.contents.items) = Len(rnd.files)

\* The prefix a string-import prefix is the variant of.
GlobOf(prefix) ==
    CASE prefix = "glob-str+"      -> "glob+"
      [] prefix = "glob-str.path"  -> "glob.path"
      [] prefix = "glob-str.path+" -> "glob.path+"
      [] prefix = "glob-str.file"  -> "glob.file"
      [] prefix = "glob-str.file+" -> "glob.file+"
      [] prefix = "glob-str.dir"   -> "glob.dir"
      [] prefix = "glob-str.dir+"  -> "glob.dir+"
      [] prefix = "glob-str.stem"  -> "glob.stem"
      [] prefix = "glob-str.stem+" -> "glob.stem+"

\* The contents with every include turned into importstr.
AsImportStr(contents) ==
    [contents EXCEPT !.items =
        [i \in 1..Len(@) |->
            [@[i] EXCEPT !.imports =
                [j \in 1..Len(@) |-> [@[j] EXCEPT !.kind = "importstr"]]]]]

\* C18: a string-import prefix is a prefix the GlobImporter can handle, and
\* its render is the render of the corresponding glob prefix for the same
\* files, same form, keys, grouping and order, with importstr for import.
C18_StrVariantRendersAsGlobPrefix ==
    (rnd.phase = "out" /\ HasPrefix(rnd.prefix, "glob-str")) =>
        LET g == handle(aliases, rnd.files, GlobOf(rnd.prefix))
        IN  /\ rnd.canHandle
            /\ rnd.err = "none" /\ g.err = "none"
            /\ rnd.contents = AsImportStr(g.contents)
            /\ \A i \in 1..Len(g.contents.items) :
                  \A j \in 1..Len(g.contents.items[i].imports) :
                      g.contents.items[i].imports[j].kind = "import"

\* A render for "glob-str.stem+" with two files under one key.
C18_Witness ==
    /\ rnd.phase = "out" /\ rnd.prefix = "glob-str.stem+"
    /\ rnd.err = "none"
    /\ \E i \in 1..Len(rnd.contents.items) :
          /\ Len(rnd.contents.items[i].imports) = 2
          /\ \A j \in 1..2 : rnd.contents.items[i].imports[j].kind = "importstr"

---------------------------------------------------------------------------
(* Properties of the routing (SpecRouting).                                *)

\* The step is a call of Import whose address parseImportString let pass
\* to the loop over the importers.
RoutedImport ==
    /\ last'.op = "Import"
    /\ importCounter' = importCounter + 1

\* The importers the call was handed to, in order.
Served(trace) == SelectSeq(trace, LAMBDA step : step \in Resolvers)

DefaultRegistry == <<"GlobImporter", "FallbackFileImporter">>

\* The prefixes of the pattern resolver as the specification lists them.
ListedPrefixa ==
    { "glob", "glob+", "glob.path", "glob.path+", "glob.file", "glob.file+",
      "glob.dir", "glob.dir+", "glob.stem", "glob.stem+" }

C20_Original_FallbackAlwaysLast ==
    [][RoutedImport
          => /\ importers[Len(importers)] = "FallbackFileImporter"
             /\ Len(Served(last'.trace)) = 1
             /\ last'.err # "ErrNoImporter"]_vars

\* The importers that can handle the prefix, by position.
Capable(prefix) ==
    {i \in 1..Len(importers) : CanHandle(importers[i], prefix)}

\* C20: an address that is not a configuration is served by the first
\* importer of the list, in its order, that can handle the prefix, and by
\* no other; when no importer of the list can, which happens only in a
\* MultiImporter constructed with a list that holds no
\* FallbackFileImporter, Import returns ErrNoImporter and no importer is
\* invoked.  The default list ends with the FallbackFileImporter.
C20_FirstCapableImporterServes ==
    [][RoutedImport =>
          LET can == Capable(last'.importedPath.scheme)
          IN  /\ (can = {}) =>
                    /\ Served(last'.trace) = <<>>
                    /\ last'.err = "ErrNoImporter"
                    /\ \A i \in 1..Len(importers) :
                          importers[i] # "FallbackFileImporter"
              /\ (can # {}) =>
                    /\ \E i \in can :
                          /\ \A j \in can : i <= j
                          /\ Served(last'.trace) = <<importers[i] \o ".Import">>
                    /\ last'.err # "ErrNoImporter"
              /\ (importers = DefaultRegistry) => (can # {})]_vars

\* A MultiImporter constructed with the GlobImporter alone has been given
\* a plain import string: no importer, ErrNoImporter.
C20_Witness ==
    /\ importers = <<"GlobImporter">>
    /\ last.op = "Import" /\ last.importedPath = PV(<<"h.l">>)
    /\ Served(last.trace) = <<>>
    /\ last.err = "ErrNoImporter"

---------------------------------------------------------------------------
(* Properties of a session (SpecSession).                                  *)

\* C24: a configuration with logLevel=debug or logLevel=info is accepted
\* and the level is the log level of the session afterwards; with any other
\* level the call fails with ErrUnknownConfig, and with a query that cannot
\* be parsed it fails with ErrMalformedQuery.
C24_LogLevelAcceptedOrRefused ==
    [][ConfigImport =>
          LET q == last'.importedPath.query
          IN  IF ParseQueryFails(q) THEN last'.err = "ErrMalformedQuery"
              ELSE QueryHas(q, "logLevel") =>
                     IF QueryFirst(q, "logLevel") \in {<<"debug">>, <<"info">>}
                     THEN /\ last'.err = "none"
                          /\ last'.contents.form = "{}"
                          /\ logLevel' = QueryFirst(q, "logLevel")
                     ELSE last'.err = "ErrUnknownConfig"]_vars

\* The session has taken "config://set?logLevel=info".
C24_Witness ==
    /\ last.op = "Import" /\ last.err = "none"
    /\ last.importedPath.scheme = "config"
    /\ QueryFirst(last.importedPath.query, "logLevel") = <<"info">>
    /\ logLevel = <<"info">>

\* The settings of the in-file configuration.
ConfigUnchanged ==
    /\ logLevel' = logLevel
    /\ ignoreImportCycles' = ignoreImportCycles
    /\ importGraphFile' = importGraphFile
    /\ enableImportGraph' = enableImportGraph

\* C28 as the specification states it: a configuration call that fails
\* leaves every setting as it was.
C28_Original_FailedConfigChangesNothing ==
    [][(ConfigImport /\ last'.err # "none") => ConfigUnchanged]_vars

\* C28: a configuration call that fails on a query that cannot be parsed
\* leaves every setting as it was; one that fails on an unsupported
\* logLevel has recorded that level as the log level and has applied the
\* importGraph and ignoreImportCycles parameters of the same query.
C28_FailedConfigKeepsWhatItApplied ==
    [][(ConfigImport /\ last'.err # "none") =>
          LET q == last'.importedPath.query
          IN  IF ParseQueryFails(q) THEN ConfigUnchanged
              ELSE /\ last'.err = "ErrUnknownConfig"
                   /\ logLevel' = QueryFirst(q, "logLevel")
                   /\ ignoreImportCycles'
                         = (ignoreImportCycles \/ QueryHas(q, "ignoreImportCycles"))
                   /\ IF QueryHas(q, "importGraph")
                      THEN /\ importGraphFile' = QueryFirst(q, "importGraph")
                           /\ enableImportGraph'
                      ELSE /\ importGraphFile' = importGraphFile
                           /\ enableImportGraph' = enableImportGraph]_vars

\* The call with "logLevel=x&importGraph=g.gv&ignoreImportCycles" has
\* failed and its three settings are in effect.
C28_Witness ==
    /\ last.op = "Import" /\ last.err = "ErrUnknownConfig"
    /\ logLevel = <<"x">>
    /\ ignoreImportCycles
    /\ importGraphFile = <<"g.gv">> /\ enableImportGraph

\* The step is a call of Import with an address that is no configuration
\* and that passes the test for import cycles.
PassedImport ==
    /\ last'.op = "Import"
    /\ ~UrlParseFails(last'.importedPath)
    /\ last'.importedPath.scheme # "config"
    /\ last'.err # "ErrImportCycle"

\* The uncoloured edges the step has added to the graph.
NewAccepted == Accepted(importGraph') \ Accepted(importGraph)

RaisedByImporter(call, counter) ==
    IF Served(call.trace) = <<"GlobImporter.Import">>
    THEN GlobImport(importGraph, counter, excludePattern, aliases,
                    call.importedFrom, call.importedPath).err
    ELSE IF Served(call.trace) = <<"FallbackFileImporter.Import">>
    THEN FileImport(call.importedFrom, call.importedPath).err
    ELSE "none"

\* C26: a call of Import that fails returns empty contents and an empty
\* foundAt, and its error is of the kind the failing step raised:
\* MalformedImport for an import string url.Parse refuses, MalformedQuery
\* or UnknownConfig for a configuration address, the importer's own error
\* when an importer was invoked, and ImportCycle or NoImporter otherwise,
\* NoImporter exactly when no registered importer can handle the prefix.
C26_FailureReturnsNothingButItsKind ==
    [][ (last'.op = "Import" /\ last'.err # "none")
        => /\ last'.contents = EmptyContents
           /\ last'.foundAt = <<>>
           /\ IF UrlParseFails(last'.importedPath)
              THEN last'.err = "ErrMalformedImport"
              ELSE IF last'.importedPath.scheme = "config"
              THEN last'.err \in {"ErrMalformedQuery", "ErrUnknownConfig"}
              ELSE IF Served(last'.trace) # <<>>
              THEN /\ last'.err = RaisedByImporter(last', importCounter')
                   /\ last'.err \in {"ErrEmptyResult", "ErrUnknownPrefix",
                                     "ErrNotFound", "ErrMalformedGlobPattern",
                                     "ErrBadPattern"}
              ELSE /\ last'.err \in {"ErrImportCycle", "ErrNoImporter"}
                   /\ (last'.err = "ErrNoImporter")
                        <=> (FirstImporter(last'.importedPath.scheme) = 0
                             /\ importCounter' = importCounter + 1) ]_vars

\* The GlobImporter found no file for the pattern: it handed back its
\* foundAt together with EmptyResult, Import returned neither.
C26_Witness ==
    /\ last.op = "Import" /\ last.err = "ErrEmptyResult"
    /\ Served(last.trace) = <<"GlobImporter.Import">>
    /\ GlobImport(importGraph, importCounter, excludePattern, aliases,
                  last.importedFrom, last.importedPath).foundAt # <<>>
    /\ last.contents = EmptyContents /\ last.foundAt = <<>>

\* The import relation between files, as the import statement of the call
\* states it: the caller imports the file its import string names, looked
\* up relative to the caller's directory.
RealImport(call) ==
    Edge(Clean(call.importedFrom),
         Join(Dir(call.importedFrom), call.importedPath.path), 0, "")

\* The relation of the first two calls of a session: the import of the
\* step and, when it was a plain import, the one of the call before.
RealImports ==
    {RealImport(last')}
        \cup (IF last.op = "Import" /\ IsPlain(last.importedPath)
              THEN {RealImport(last)} ELSE {})

\* C27 as the specification states it, for the first two calls of a
\* session: a plain import is rejected with ImportCycle only when the
\* files' import relation leads from the imported file back to the caller.
C27_Original_RejectedOnlyOnRealCycle ==
    [][ (CheckedImport /\ last'.n <= 2 /\ last'.err = "ErrImportCycle")
        => HasPath(RealImports, RealImport(last').dst,
                   RealImport(last').src) ]_vars

\* C27: the test runs on import strings as they are spelled, not on the
\* files they name: a plain import of "a" from c is rejected only when the
\* graph of spellings leads from a to clean(c), or from the resolved path r
\* to clean(c) or to a.
C27_RejectedWhenSpellingsMeet ==
    [][ (CheckedImport /\ last'.err = "ErrImportCycle")
        => \/ HasPath(importGraph.E, last'.importedPath, CallerVertex(last'))
           \/ HasPath(importGraph.E, ResolvedVertex(last'), CallerVertex(last'))
           \/ HasPath(importGraph.E, ResolvedVertex(last'),
                      last'.importedPath) ]_vars

\* h.l has imported t/c.j, and the import of "h.l" from t/c.j, which names
\* the file t/h.l, was rejected: no file imports one that imports it.
C27_Witness ==
    /\ last.op = "Import" /\ last.err = "ErrImportCycle" /\ last.n = 2
    /\ last.importedFrom = <<"t", "c.j">> /\ last.importedPath = PV(<<"h.l">>)
    /\ Edge(PV(<<"h.l">>), PV(<<"t", "c.j">>), 0, "") \in importGraph.E
    /\ Edge(PV(<<"t", "c.j">>), PV(<<"h.l">>), 1, "red") \in importGraph.E
    /\ RealImport(last).dst = <<"t", "h.l">>

---------------------------------------------------------------------------
(* The cache key of a glob import (SpecGlob).                              *)

\* The call was served by the GlobImporter and succeeded.
GlobSucceeded(call) ==
    /\ call.op = "Import" /\ call.err = "none"
    /\ Served(call.trace) = <<"GlobImporter.Import">>

\* C30 as the specification states it, for two successive calls: two
\* successful glob imports do not return different contents under one
\* foundAt.
C30_Original_KeysDiffer ==
    [][ (GlobSucceeded(last) /\ GlobSucceeded(last')
         /\ last'.contents # last.contents)
        => last'.foundAt # last.foundAt ]_vars

\* C30: a successful glob import raises the counter by one and returns as
\* foundAt the caller as it was spelled, preceded by one "./" and by as
\* many more as the counter says after the call; no part of the caller's
\* spelling is normalised, so a caller spelled with a leading "./" gets
\* the foundAt the caller spelled without gets one import later.
C30_KeyCountsImports ==
    [][ GlobSucceeded(last')
        => /\ importCounter' = importCounter + 1
           /\ last'.foundAt =
                 SelfRefs(importCounter') \o <<".">> \o last'.importedFrom
           /\ Len(last'.foundAt) > Len(last'.importedFrom) + 1 ]_vars

\* The second import of a session, from the caller spelled t/c.j, returned
\* "./././t/c.j": the foundAt of a first import from the caller ./t/c.j.
C30_Witness ==
    /\ GlobSucceeded(last) /\ last.n = 2 /\ importCounter = 2
    /\ last.importedFrom = <<"t", "c.j">>
    /\ last.foundAt = <<".", ".", ".", "t", "c.j">>
    /\ last.foundAt = SelfRefs(1) \o <<".">> \o <<".", "t", "c.j">>

---------------------------------------------------------------------------
(* Properties of the alias prefixa (SpecAlias).  A step is a call of       *)
(* AddAliasPrefix when last'.op says so; last'.trace holds the alias and   *)
(* the prefix.                                                             *)

\* The step is an import whose scheme is an alias the prefix table holds.
AliasedImport ==
    /\ last'.op = "Import"
    /\ \E k \in DOMAIN prefixa : prefixa[k] = last'.importedPath.scheme

\* C21: AddAliasPrefix(alias, prefix) with a prefix NewGlobImporter did not
\* register fails with UnknownPrefix and leaves both tables as they were;
\* with a registered prefix it succeeds, CanHandle is true for the alias
\* afterwards, and an import through an alias the prefix table holds is
\* handed to the GlobImporter.
C21_UnknownPrefixRefusedAtRegistration ==
    [][ /\ (last'.op = "AddAliasPrefix") =>
              IF last'.trace[2] \notin GlobPrefixa
              THEN /\ last'.err = "ErrUnknownPrefix"
                   /\ prefixa' = prefixa /\ aliases' = aliases
              ELSE /\ last'.err = "none"
                   /\ GlobCanHandle(prefixa', last'.trace[1])
        /\ AliasedImport => Served(last'.trace) = <<"GlobImporter.Import">>
      ]_vars

\* The alias "stem" was registered for glob.stem, and an import through it
\* was served by the GlobImporter.
C21_Witness ==
    /\ last.op = "Import" /\ last.err = "none"
    /\ last.importedPath.scheme = "stem"
    /\ "stem" \in DOMAIN aliases /\ aliases["stem"] = "glob.stem"
    /\ prefixa["glob.stem"] = "stem"
    /\ Served(last.trace) = <<"GlobImporter.Import">>
    /\ last.contents.form = "object"

\* C22 as the specification states it: the two tables are inverse to each
\* other, so that an alias stands for one prefix and a prefix has at most
\* one alias.
C22_Original_TablesInverse ==
    /\ \A a \in DOMAIN aliases : prefixa[aliases[a]] = a
    /\ \A k \in DOMAIN prefixa :
          prefixa[k] # "" =>
              prefixa[k] \in DOMAIN aliases /\ aliases[prefixa[k]] = k

\* C22: a successful AddAliasPrefix(alias, prefix) overwrites the entry of
\* the prefix in the prefix table and the entry of the alias in the alias
\* table and nothing else: the entry of the prefix the alias stood for
\* before and the entry of the alias the prefix had before stay as they
\* are.  Every alias of the prefix table is known to the alias table.
C22_RegistrationOverwritesItsTwoEntries ==
    [][ (last'.op = "AddAliasPrefix" /\ last'.err = "none")
        => /\ prefixa'[last'.trace[2]] = last'.trace[1]
           /\ aliases'[last'.trace[1]] = last'.trace[2]
           /\ \A k \in DOMAIN prefixa \ {last'.trace[2]} :
                 prefixa'[k] = prefixa[k]
           /\ \A a \in DOMAIN aliases \ {last'.trace[1]} :
                 a \in DOMAIN aliases' /\ aliases'[a] = aliases[a]
           /\ \A k \in DOMAIN prefixa' :
                 prefixa'[k] # "" => prefixa'[k] \in DOMAIN aliases' ]_vars

\* "stem" was registered for glob.stem and then for glob.path, "s" for
\* glob.path after that: glob.path has the alias "s", but an import through
\* "stem" is still taken, by the entry left at glob.stem, and rendered as
\* glob.path.
C22_Witness ==
    /\ last.op = "Import" /\ last.err = "none"
    /\ last.importedPath.scheme = "stem"
    /\ prefixa["glob.stem"] = "stem" /\ prefixa["glob.path"] = "s"
    /\ DOMAIN aliases = {"stem", "s"}
    /\ aliases["stem"] = "glob.path" /\ aliases["s"] = "glob.path"
    /\ last.contents.form = "paths"

\* The step is an import through a registered alias, served by the
\* GlobImporter.
ImportThroughAlias ==
    /\ last'.op = "Import"
    /\ last'.importedPath.scheme \in DOMAIN aliases
    /\ Served(last'.trace) = <<"GlobImporter.Import">>

\* What the GlobImporter returns for the import of the step when the
\* prefix the alias stands for is written in place of the alias.
ThroughPrefix ==
    GlobImport(importGraph, importCounter', excludePattern, aliases,
               last'.importedFrom,
               [last'.importedPath EXCEPT
                   !.scheme = aliases[last'.importedPath.scheme]])

\* C29 as the specification states it: an import through an alias returns
\* what the import through its prefix returns, and never UnknownPrefix.
C29_Original_AliasRendersAsItsPrefix ==
    [][ ImportThroughAlias
        => /\ last'.err = ThroughPrefix.err
           /\ last'.contents = ThroughPrefix.contents
           /\ last'.err # "ErrUnknownPrefix" ]_vars

\* C29: an import through an alias of a prefix that does not begin with
\* "glob-str" returns what the import through the prefix returns; an
\* import through an alias of a "glob-str" prefix fails with UnknownPrefix.
C29_StrAliasesAreUnknownToHandle ==
    [][ ImportThroughAlias
        => IF HasPrefix(aliases[last'.importedPath.scheme], "glob-str")
           THEN /\ last'.err = "ErrUnknownPrefix"
                /\ ThroughPrefix.err = "none"
           ELSE /\ last'.err = ThroughPrefix.err
                /\ last'.contents = ThroughPrefix.contents ]_vars

\* "s" is the alias of glob-str.stem, registered without error, and the
\* import through it failed with UnknownPrefix.
C29_Witness ==
    /\ last.op = "Import" /\ last.err = "ErrUnknownPrefix"
    /\ last.importedPath.scheme = "s"
    /\ DOMAIN aliases = {"s"} /\ aliases["s"] = "glob-str.stem"
    /\ prefixa["glob-str.stem"] = "s"
    /\ Served(last.trace) = <<"GlobImporter.Import">>

---------------------------------------------------------------------------
(* Properties of the handling of missing files (SpecMissing).              *)

\* The step is a plain import, handed to the FallbackFileImporter, of a
\* file that is not in the caller's directory.
MissingImport ==
    /\ last'.op = "Import" /\ IsPlain(last'.importedPath)
    /\ Served(last'.trace) = <<"FallbackFileImporter.Import">>
    /\ Join(Dir(last'.importedFrom), last'.importedPath.path) \notin Files

\* What an import returns for the content of the file at the path.
FileContents(path) ==
    [form |-> "file", items |-> <<[key |-> Str(path), imports |-> <<>>]>>]

=============================================================================
